---- MODULE Spec2Model ----
(***************************************************************************)
(* Orchestration core of multi_agent_platform: the command dispatcher      *)
(* (Orchestrator.execute_command), the subtask pipeline                    *)
(* (run_next_pending_subtask, driven by background threads), the event log *)
(* (envelopes.jsonl), the persisted plan (state.json) and the persisted    *)
(* session state (orchestrator_state.json), and the snapshot rendering     *)
(* with its out-of-band redo.                                              *)
(*                                                                         *)
(* Subtask ids "t<n>" are the naturals n >= 1; 0 stands for None / "".     *)
(* Timestamps are readings of one wall clock.                              *)
(***************************************************************************)
EXTENDS Integers, Sequences, FiniteSets, TLC

\* ------------------------------------------------------------- bounds
MaxCmds == 2
MaxRedo == 1
MaxFail == 1
MaxExternal == 1
MaxGets == 2
MaxRuns == 2
NumThreads == 2
NumChapters == 4
NumSubtasks == 1

\* -------------------------------------------------- program constants
BatchThreshold == 3
SetupCount == 4
ResetEvery == 5

VARIABLES
    diskPlan,     \* state.json: the persisted plan's subtask list
    diskState,    \* orchestrator_state.json: the persisted OrchestratorState
    envLog,       \* logs/envelopes.jsonl
    progressLog,  \* logs/progress_events.jsonl
    clock,        \* the wall clock
    runs,         \* background threads started by next / all
    slots,        \* dispatcher threads that loaded plan/state and have not run yet
    last,         \* the result the last finished operation returned
    hist,         \* counters of what has happened so far
    api           \* the API's view: which primary files exist, the cached snapshot

vars == <<diskPlan, diskState, envLog, progressLog, clock, runs, slots, last, hist, api>>

\* ------------------------------------------------------ plan_model.py
Subtask(id, title, status, notes) ==
    [id |-> id, title |-> title, status |-> status, notes |-> notes,
     output |-> "", needs_redo |-> FALSE]

PLAN_EDITING_KINDS ==
    {"set_current_subtask", "update_subtask", "insert_subtask",
     "append_subtask", "skip_subtask"}

OnlyDone(s) == s.status = "done"

_is_subtask_complete(s) == s.status \in {"done", "skipped"}

\* index of the first subtask that is not complete, 0 when there is none
_next_pending_subtask(plan) ==
    IF \E i \in 1..Len(plan) : ~_is_subtask_complete(plan[i])
    THEN CHOOSE i \in 1..Len(plan) :
            /\ ~_is_subtask_complete(plan[i])
            /\ \A j \in 1..(i - 1) : _is_subtask_complete(plan[j])
    ELSE 0

_has_pending_subtasks(plan) == \E i \in 1..Len(plan) : ~_is_subtask_complete(plan[i])

\* index of the first subtask with this id, 0 when there is none
_find_subtask_index(plan, id) ==
    IF \E i \in 1..Len(plan) : plan[i].id = id
    THEN CHOOSE i \in 1..Len(plan) :
            /\ plan[i].id = id
            /\ \A j \in 1..(i - 1) : plan[j].id # id
    ELSE 0

MaxOf(S) == IF S = {} THEN 0 ELSE CHOOSE m \in S : \A x \in S : x <= m

_generate_subtask_id(plan) ==
    MaxOf({plan[i].id : i \in {j \in 1..Len(plan) : plan[j].id >= 1}}) + 1

InsertAt(seq, idx, x) == SubSeq(seq, 1, idx) \o <<x>> \o SubSeq(seq, idx + 1, Len(seq))

\* --------------------------------------------------- session_state.py
NewState(locked, novel) ==
    [status |-> "idle", current |-> 0, plan_locked |-> locked,
     orch_events |-> <<>>, messages |-> <<>>, progress_events |-> <<>>,
     worker_outputs |-> <<>>, novel_mode |-> novel,
     revisions |-> <<>>, batch_tasks |-> <<>>, batch_counter |-> 0,
     processed |-> <<>>, last_error |-> ""]

add_orchestrator_message(st, role, content) ==
    IF role \notin {"user", "orchestrator"} THEN st
    ELSE [st EXCEPT !.messages = Append(@, [role |-> role, content |-> content])]

\* OrchestratorState.from_dict: entries that do not validate against their
\* pydantic model are dropped; the queued intents are plain dicts without
\* from_role/to_role, and progress events of other agents than worker and
\* reviewer do not validate either.
from_dict(d) ==
    [d EXCEPT !.orch_events = <<>>,
              !.progress_events =
                  SelectSeq(@, LAMBDA ev : ev.agent \in {"worker", "reviewer"})]

load_orchestrator_state == from_dict(diskState)
_load_plan == diskPlan

\* ------------------------------------------------------ message_bus.py
\* A handler works on a world w: its in-memory plan and state objects, the
\* two persisted files and the two logs.
World(plan, st) ==
    [plan |-> plan, st |-> st, dplan |-> diskPlan, dstate |-> diskState,
     elog |-> envLog, plog |-> progressLog]

\* an envelope document: subtask_id 0 and decision "" stand for a payload
\* without that key; a user command's text is kept in reason
Envelope(source, payload_type, sub, decision, reason, ts) ==
    [source |-> source, payload_type |-> payload_type, subtask_id |-> sub,
     decision |-> decision, reason |-> reason, timestamp |-> ts]

\* protocol.PayloadType
PayloadType ==
    {"clarification", "clarification_response", "plan", "ticket",
     "instruction_proposal", "instruction", "report", "review", "artifact_ref",
     "outline_generated", "draft_generated", "review_provided",
     "summary_generated", "plan_created", "subtask_result", "coord_decision",
     "coord_response", "user_command", "user_feedback", "error"}

\* ProtocolValidator.validate_envelope: the envelope schema (source not
\* empty, payload_type one of the enum), then the schema registered for the
\* payload type (its required keys), for the payload types the orchestrator
\* and its roles write
validate_envelope(env) ==
    /\ env.source # ""
    /\ env.payload_type \in PayloadType
    /\ env.payload_type \in {"subtask_result", "coord_decision", "user_feedback"}
          => env.subtask_id # 0
    /\ env.payload_type \in {"coord_decision", "user_feedback", "review"}
          => env.decision # ""

AppendUnvalidated(w, env) == [w EXCEPT !.elog = Append(@, env)]

\* MessageBus.append_envelope: validate, then write the line; a failed
\* validation raises and nothing is written
append_envelope(w, env) ==
    IF validate_envelope(env) THEN [w EXCEPT !.elog = Append(@, env)] ELSE w

\* MessageBus.send: build the envelope (which validates it), append it
send(w, source, payload_type, sub, decision, reason, now) ==
    append_envelope(w, Envelope(source, payload_type, sub, decision, reason, now))

\* MessageBus.log_user_command
log_user_command(w, text, now) ==
    append_envelope(w, Envelope("user", "user_command", 0, "", text, now))

\* datetime.isoformat(): the string of a clock reading
isoformat(t) == [iso |-> t]

MirrorAtFront(w, record) ==
    [w EXCEPT !.elog = <<[source |-> "orchestrator", payload_type |-> "progress_event",
                          subtask_id |-> record.subtask_id, decision |-> "", reason |-> "",
                          timestamp |-> record.ts.iso,
                          agent |-> record.agent, stage |-> record.stage]>> \o @]

\* MessageBus.log_progress_event: appended without schema validation; the
\* envelope's timestamp is the record's ts string (envelope timestamps are
\* all isoformat strings and are kept as the clock reading they spell), its
\* payload is the event, of which agent and stage are kept
log_progress_event(w, record) ==
    [w EXCEPT !.elog = Append(@,
        [source |-> "orchestrator", payload_type |-> "progress_event",
         subtask_id |-> record.subtask_id, decision |-> "", reason |-> "",
         timestamp |-> record.ts.iso,
         agent |-> record.agent, stage |-> record.stage])]

\* ---------------------------------------------------------- run_flow.py
PROGRESS_STAGE_STATUS_MAP(stage) == IF stage = "finish" THEN "completed" ELSE "in_progress"

ProgressEvent(agent, sub, stage, source, now) ==
    [agent |-> agent, subtask_id |-> sub, stage |-> stage,
     status |-> PROGRESS_STAGE_STATUS_MAP(stage), source |-> source, ts |-> now]

\* _append_progress_event: on the state object only
_append_progress_event(st, agent, sub, stage, source, now) ==
    IF sub = 0 THEN st
    ELSE [st EXCEPT !.progress_events = Append(@, ProgressEvent(agent, sub, stage, source, now))]

save_orchestrator_state(w) == [w EXCEPT !.dstate = w.st]

save_state(w) == [w EXCEPT !.dplan = w.plan]

_persist_plan_state(w) == save_orchestrator_state(save_state(w))

\* _record_progress_event: state object, orchestrator_state.json,
\* progress_events.jsonl and the mirror into envelopes.jsonl
_record_progress_event(w, agent, sub, stage, now) ==
    IF sub = 0 THEN w
    ELSE LET ev == ProgressEvent(agent, sub, stage, "pipeline", now)
             w1 == [w EXCEPT !.st = _append_progress_event(w.st, agent, sub, stage, "pipeline", now)]
             w2 == save_orchestrator_state(w1)
             record == [ev EXCEPT !.ts = isoformat(@)]
             w3 == [w2 EXCEPT !.plog = Append(@, record)]
         IN  log_progress_event(w3, record)

\* _cache_reviewer_revision_entry
_cache_reviewer_revision_entry(st, sub, text, batch_id) ==
    IF sub = 0 \/ text = "" THEN st
    ELSE LET old == IF sub \in DOMAIN st.revisions THEN st.revisions[sub].batch_id ELSE 0
             entry == [text |-> text, batch_id |-> IF batch_id # 0 THEN batch_id ELSE old]
         IN  [st EXCEPT !.revisions = (sub :> entry) @@ @]

\* run_worker_for_subtask and run_reviewer_on_output: the placeholder worker
\* and reviewer of the out-of-band redo
run_worker_for_subtask == "worker rewrite"

RedoReviewer == [decision |-> "redo", notes |-> "placeholder review"]

run_reviewer_on_output == [decision |-> "accept", notes |-> "placeholder review"]

\* A target is a subtask id (a string) or, as the intent agent is asked to
\* give it, a position in the subtask list counted from 0; the position i
\* is written -(i + 1).
Position(i) == -(i + 1)

\* the lookup of both consumer branches: isinstance(target, int) and
\* 0 <= target < len, or the first subtask with that id; 0 when none
ResolveTarget(plan, target) ==
    IF target < 0
    THEN IF -target <= Len(plan) THEN -target ELSE 0
    ELSE _find_subtask_index(plan, target)

RedoRequestNote == "[redo request]"

ContentChangeKeepsQuiet(plan, st, ev) ==
    [plan |-> plan, st |-> st, events |-> <<>>]

\* consume_orchestrator_events, REQUEST_CONTENT_CHANGE branch, for one
\* event: the subtask is marked, the request is noted, the confirmation is
\* said and a TRIGGER_REDO with the same target is produced
ConsumeContentChange(plan, st, ev) ==
    LET idx == ResolveTarget(plan, ev.target)
        plan1 == IF idx = 0 THEN plan
                 ELSE [plan EXCEPT ![idx] =
                         [@ EXCEPT !.needs_redo = TRUE,
                                   !.notes = IF ev.instructions # ""
                                             THEN Append(@, RedoRequestNote) ELSE @]]
    IN  [plan |-> plan1,
         st |-> add_orchestrator_message(st, "orchestrator",
                    [kind |-> "triggering", target |-> ev.target]),
         events |-> <<[kind |-> "TRIGGER_REDO", target |-> ev.target,
                       instructions |-> ev.instructions, source |-> ""]>>]

\* generate_stub_plan_from_planning_input: without text the plan is
\* returned as it is; with text the new subtask is built as Subtask(...,
\* metadata=...), and plan_model.Subtask has no such field: TypeError
generate_stub_plan_from_planning_input(plan, text) ==
    IF text = "" THEN [raised |-> FALSE, plan |-> plan]
    ELSE [raised |-> TRUE, plan |-> plan]

FallbackPlan ==
    <<Subtask(1, "Outline", "pending", <<"auto-generated fallback">>),
      Subtask(2, "Write the first section draft", "pending", <<"auto-generated fallback">>)>>

KeepPlan(plan, novel, planner) == [raised |-> FALSE, plan |-> plan]

\* _apply_planner_result_to_state on what the planner returned: every
\* subtask of the result (in novel mode the four setup subtasks first) is
\* built as Subtask(..., metadata=...): TypeError; a result without subtasks
\* gives the two fallback subtasks as the new list
_apply_planner_result_to_state(plan, novel, planner) ==
    IF planner = "subtasks" \/ novel THEN [raised |-> TRUE, plan |-> plan]
    ELSE [raised |-> FALSE, plan |-> FallbackPlan]

\* consume_orchestrator_events, REQUEST_PLAN_UPDATE branch, for one event;
\* ev.planner is what run_planner_agent does when it is called for this
\* event ("fails": it raises or USE_REAL_PLANNER is off; "empty": a result
\* without subtasks; "subtasks": a result with subtasks). An exception of
\* the planner or of the merge falls back to the stub; an exception of the
\* stub leaves the consumer.
ConsumePlanUpdate(plan, st, ev) ==
    LET applied == IF ev.planner = "fails" THEN [raised |-> TRUE, plan |-> plan]
                   ELSE _apply_planner_result_to_state(plan, st.novel_mode, ev.planner)
        updated == IF applied.raised
                   THEN generate_stub_plan_from_planning_input(plan, ev.instructions)
                   ELSE applied
    IN  IF updated.raised THEN [raised |-> TRUE, plan |-> plan, st |-> st]
        ELSE [raised |-> FALSE, plan |-> updated.plan,
              st |-> add_orchestrator_message(st, "orchestrator",
                        [kind |-> "planner_redo", target |-> 0])]

\* a consumer that only announces the rewrite
RedoLeavesSubtask(plan, st, ev, now) ==
    [plan |-> plan,
     st |-> add_orchestrator_message(st, "orchestrator",
               [kind |-> "rewritten", target |-> ev.target])]

\* consume_orchestrator_events, TRIGGER_REDO branch, for one event
ConsumeTriggerRedo(plan, st, ev, now) ==
    LET idx == ResolveTarget(plan, ev.target)
    IN  IF idx = 0
        THEN [plan |-> plan,
              st |-> add_orchestrator_message(st, "orchestrator",
                        [kind |-> "rewritten", target |-> ev.target])]
        ELSE LET sid == plan[idx].id
                 review == run_reviewer_on_output
                 decision == review.decision
                 st1 == _append_progress_event(st, "worker", sid, "start", "orchestrator_event", now)
                 st2 == _append_progress_event(st1, "worker", sid, "finish", "orchestrator_event", now)
                 st3 == _append_progress_event(st2, "reviewer", sid, "start", "orchestrator_event", now)
                 st4 == _append_progress_event(st3, "reviewer", sid, "finish", "orchestrator_event", now)
                 sub1 == [plan[idx] EXCEPT
                            !.output = run_worker_for_subtask,
                            !.notes = IF review.notes # "" THEN <<review.notes>> ELSE @,
                            !.status = IF decision = "redo" THEN "pending" ELSE "done",
                            !.needs_redo = (decision = "redo")]
             IN  [plan |-> [plan EXCEPT ![idx] = sub1],
                  st |-> add_orchestrator_message(st4, "orchestrator",
                            [kind |-> "rewritten", target |-> sid])]

\* consume_orchestrator_events, the body of the loop for one event: what the
\* branch of its kind leaves of the plan and the state, the events it
\* produces, and whether it left the consumer with an exception
ConsumeOne(plan, st, ev, now) ==
    IF ev.kind = "REQUEST_CONTENT_CHANGE"
    THEN ConsumeContentChange(plan, st, ev) @@ [raised |-> FALSE]
    ELSE IF ev.kind = "REQUEST_PLAN_UPDATE"
    THEN ConsumePlanUpdate(plan, st, ev) @@ [events |-> <<>>]
    ELSE IF ev.kind = "TRIGGER_REDO"
    THEN ConsumeTriggerRedo(plan, st, ev, now) @@ [events |-> <<>>, raised |-> FALSE]
    ELSE [plan |-> plan,
          st |-> add_orchestrator_message(st, "orchestrator",
                    [kind |-> IF ev.kind = "REQUEST_OTHER"
                              THEN "acknowledged" ELSE "unhandled",
                     target |-> 0]),
          events |-> <<>>, raised |-> FALSE]

\* consume_orchestrator_events: every queued event in order; the queue is
\* replaced by the events the consumption produced. ConsumeRest goes on
\* after the event at position i left r.
RECURSIVE ConsumeFrom(_, _, _, _, _, _)
RECURSIVE ConsumeRest(_, _, _, _, _)
ConsumeRest(r, pending, i, new_events, now) ==
    IF r.raised THEN [plan |-> r.plan, st |-> r.st, raised |-> TRUE]
    ELSE ConsumeFrom(r.plan, r.st, pending, i + 1, new_events \o r.events, now)

ConsumeFrom(plan, st, pending, i, new_events, now) ==
    IF i > Len(pending)
    THEN [plan |-> plan, st |-> [st EXCEPT !.orch_events = new_events], raised |-> FALSE]
    ELSE ConsumeRest(ConsumeOne(plan, st, pending[i], now), pending, i, new_events, now)

consume_orchestrator_events(plan, st, now) ==
    ConsumeFrom(plan, st, st.orch_events, 1, <<>>, now)


\* str.lower() on the decision words the log holds
Lower(d) == IF d = "REDO" THEN "redo" ELSE IF d = "ACCEPT" THEN "accept" ELSE d

ProcessedGet(processed, sub) == IF sub \in DOMAIN processed THEN processed[sub] ELSE 0

\* _auto_trigger_redo_from_logs, first loop: the latest coord_decision per
\* subtask id (the first entry among equal timestamps), and the ids in the
\* order the dict received them
RECURSIVE LatestDecisions(_, _, _)
LatestDecisions(log, i, acc) ==
    IF i > Len(log) THEN acc
    ELSE LET env == log[i]
             sub == env.subtask_id
         IN  IF Lower(env.payload_type) # "coord_decision" \/ sub = 0
             THEN LatestDecisions(log, i + 1, acc)
             ELSE IF sub \in DOMAIN acc.latest /\ acc.latest[sub].timestamp >= env.timestamp
             THEN LatestDecisions(log, i + 1, acc)
             ELSE LatestDecisions(log, i + 1,
                    [latest |-> (sub :> [decision |-> Lower(env.decision),
                                         reason |-> env.reason,
                                         timestamp |-> env.timestamp]) @@ acc.latest,
                     order |-> IF sub \in DOMAIN acc.latest THEN acc.order
                               ELSE Append(acc.order, sub)])

\* second loop: one TRIGGER_REDO per redo decision newer than the watermark
RECURSIVE RedoEvents(_, _, _, _, _)
RedoEvents(l, i, processed, existing_targets, new_events) ==
    IF i > Len(l.order) THEN [processed |-> processed, new_events |-> new_events]
    ELSE LET sub == l.order[i]
             info == l.latest[sub]
             ts == info.timestamp
         IN  IF info.decision # "redo"
             THEN RedoEvents(l, i + 1, processed, existing_targets, new_events)
             ELSE IF ts # 0 /\ ProcessedGet(processed, sub) >= ts
             THEN RedoEvents(l, i + 1, processed, existing_targets, new_events)
             ELSE IF sub \in existing_targets
             THEN RedoEvents(l, i + 1,
                    (sub :> (IF ts # 0 THEN ts ELSE ProcessedGet(processed, sub))) @@ processed,
                    existing_targets, new_events)
             ELSE RedoEvents(l, i + 1,
                    IF ts # 0 THEN (sub :> ts) @@ processed ELSE processed,
                    existing_targets,
                    Append(new_events,
                        [kind |-> "TRIGGER_REDO", target |-> sub,
                         instructions |-> info.reason, source |-> "coord_decision"]))

\* the out-of-band redo without its watermark
AutoTriggerNoWatermark(w, now) ==
    LET l == LatestDecisions(w.elog, 1, [latest |-> <<>>, order |-> <<>>])
        r == RedoEvents(l, 1, w.st.processed, {}, <<>>)
    IN  IF l.order = <<>> \/ r.new_events = <<>> THEN w
        ELSE LET st1 == [w.st EXCEPT !.orch_events = @ \o r.new_events]
                 c == consume_orchestrator_events(w.plan, st1, now)
             IN  _persist_plan_state([w EXCEPT !.plan = c.plan, !.st = c.st])

_auto_trigger_redo_from_logs(w, now) ==
    LET l == LatestDecisions(w.elog, 1, [latest |-> <<>>, order |-> <<>>])
        existing_targets ==
            {w.st.orch_events[i].target :
                i \in {j \in 1..Len(w.st.orch_events) :
                          w.st.orch_events[j].kind = "TRIGGER_REDO"}}
        r == RedoEvents(l, 1, w.st.processed, existing_targets, <<>>)
    IN  IF l.order = <<>> \/ r.new_events = <<>> THEN w
        ELSE LET st1 == [w.st EXCEPT !.orch_events = @ \o r.new_events,
                                     !.processed = r.processed]
                 c == consume_orchestrator_events(w.plan, st1, now)
             IN  _persist_plan_state([w EXCEPT !.plan = c.plan, !.st = c.st])

\* --------------------------------------------------- session_state.py
\* build_session_snapshot: the plan comes from state.json, the decisions and
\* outputs from the event log (latest timestamp per subtask id), the rest
\* from the state object handed in
RECURSIVE LatestByKind(_, _, _, _)
LatestByKind(log, kind, i, acc) ==
    IF i > Len(log) THEN acc
    ELSE LET env == log[i]
             sub == env.subtask_id
         IN  IF env.payload_type # kind \/ sub = 0
                \/ (sub \in DOMAIN acc /\ acc[sub].timestamp >= env.timestamp)
             THEN LatestByKind(log, kind, i + 1, acc)
             ELSE LatestByKind(log, kind, i + 1,
                    (sub :> [decision |-> env.decision, timestamp |-> env.timestamp]) @@ acc)

\* list.sort(key=timestamp): stable insertion sort
RECURSIVE InsertSorted(_, _)
InsertSorted(sorted, e) ==
    IF sorted = <<>> THEN <<e>>
    ELSE IF sorted[Len(sorted)].timestamp <= e.timestamp THEN Append(sorted, e)
    ELSE Append(InsertSorted(SubSeq(sorted, 1, Len(sorted) - 1), e), sorted[Len(sorted)])

RECURSIVE SortByTimestamp(_)
SortByTimestamp(log) ==
    IF log = <<>> THEN <<>>
    ELSE InsertSorted(SortByTimestamp(SubSeq(log, 1, Len(log) - 1)), log[Len(log)])

\* OrchestratorState.to_dict on the progress events: ts through isoformat
ProgressToDict(events) == [i \in DOMAIN events |-> [events[i] EXCEPT !.ts = isoformat(@)]]

ProgressKey(ev) == <<ev.agent, ev.subtask_id, ev.stage, ev.ts>>

KeepAllProgress(events) == events

\* the seen_keys loop: the first event of each (agent, subtask_id, stage, ts)
RECURSIVE DedupFrom(_, _, _, _)
DedupFrom(events, i, seen_keys, out) ==
    IF i > Len(events) THEN out
    ELSE IF ProgressKey(events[i]) \in seen_keys
    THEN DedupFrom(events, i + 1, seen_keys, out)
    ELSE DedupFrom(events, i + 1, seen_keys \cup {ProgressKey(events[i])},
                   Append(out, events[i]))

DedupProgress(events) == DedupFrom(events, 1, {}, <<>>)

\* progress_events.sort(key=ts): stable
RECURSIVE InsertSortedTs(_, _)
InsertSortedTs(sorted, e) ==
    IF sorted = <<>> THEN <<e>>
    ELSE IF sorted[Len(sorted)].ts.iso <= e.ts.iso THEN Append(sorted, e)
    ELSE Append(InsertSortedTs(SubSeq(sorted, 1, Len(sorted) - 1), e), sorted[Len(sorted)])

RECURSIVE SortByTs(_)
SortByTs(events) ==
    IF events = <<>> THEN <<>>
    ELSE InsertSortedTs(SortByTs(SubSeq(events, 1, Len(events) - 1)), events[Len(events)])

\* the progress events of the state object and of progress_events.jsonl
combined_progress_sources(w) == ProgressToDict(w.st.progress_events) \o w.plog

build_session_snapshot(w) ==
    LET plan == w.dplan
        envelopes == SortByTimestamp(w.elog)
        ids == {plan[i].id : i \in 1..Len(plan)}
        outs == LatestByKind(envelopes, "subtask_result", 1, <<>>)
        decs == LatestByKind(envelopes, "coord_decision", 1, <<>>)
        cached == {w.st.worker_outputs[i].subtask_id : i \in 1..Len(w.st.worker_outputs)}
        onplan == {plan[i].id : i \in {j \in 1..Len(plan) : plan[j].output # ""}}
    IN  [subtasks |-> [i \in 1..Len(plan) |->
                         [id |-> plan[i].id, title |-> plan[i].title,
                          status |-> plan[i].status, notes |-> plan[i].notes]],
         current_subtask_id |-> w.st.current,
         is_running |-> (w.st.status = "running"),
         status |-> w.st.status,
         plan_locked |-> w.st.plan_locked,
         session_mode |-> IF w.st.plan_locked THEN "execution" ELSE "planning",
         worker_outputs |-> (DOMAIN outs \cup cached \cup onplan) \cap ids,
         coord_decisions |-> [sub \in DOMAIN decs \cap ids |-> decs[sub].decision],
         orchestrator_messages |-> w.st.messages,
         progress_events |-> SortByTs(DedupProgress(combined_progress_sources(w)))]

\* ---------------------------------------------------------- run_flow.py
\* _render_session_snapshot: the out-of-band redo, then the snapshot
_render_session_snapshot(w, now) ==
    LET w1 == _auto_trigger_redo_from_logs(w, now)
    IN  [w |-> w1, snapshot |-> build_session_snapshot(w1)]


\* A command payload: sid = subtask_id, patch = a function from field names,
\* title, after = after_id, newid = a caller-supplied subtask_id, pstatus =
\* a caller-supplied status ("" when the key is absent), reason.
Payload(sid, patch, title, after, newid, pstatus, reason) ==
    [sid |-> sid, patch |-> patch, title |-> title, after |-> after,
     newid |-> newid, pstatus |-> pstatus, reason |-> reason]

NoPayload == Payload(0, <<>>, "", 0, 0, "", "")

Reply(plan, st, ok, msg, sched) ==
    [plan |-> plan, st |-> st, ok |-> ok, msg |-> msg, sched |-> sched]

NoGuard(st, cmd) == FALSE

\* execute_command: the re-entrancy guard
ReentrancyGuard(st, cmd) == st.status = "running" /\ cmd \in {"next", "all"}

NoLockGate(st, cmd) == FALSE

\* execute_command: the lock gate
LockGate(st, cmd) == st.plan_locked /\ cmd \in PLAN_EDITING_KINDS

confirm_plan(plan, st) ==
    IF st.plan_locked THEN Reply(plan, st, TRUE, "Plan already locked.", "none")
    ELSE Reply(plan,
               add_orchestrator_message([st EXCEPT !.plan_locked = TRUE], "orchestrator",
                    [kind |-> "plan_locked", target |-> 0]),
               TRUE, "Plan locked.", "none")

next_command(plan, st) ==
    IF ~_has_pending_subtasks(plan)
    THEN Reply(plan, st, TRUE, "all subtasks complete", "none")
    ELSE LET idx == _next_pending_subtask(plan)
         IN  Reply(plan,
                   [st EXCEPT !.status = "running", !.current = plan[idx].id],
                   TRUE, "background next triggered", "next")

all_command(plan, st) ==
    LET idx == _next_pending_subtask(plan)
    IN  Reply(plan,
              [st EXCEPT !.status = "running",
                         !.current = IF idx = 0 THEN 0 ELSE plan[idx].id],
              TRUE, "background all triggered", "all")

\* a handler that records the id before it has looked the subtask up
SetBeforeLookup(plan, st, p) ==
    IF p.sid = 0 THEN Reply(plan, st, FALSE, "missing subtask_id", "none")
    ELSE Reply(plan, [st EXCEPT !.current = p.sid],
               _find_subtask_index(plan, p.sid) # 0,
               IF _find_subtask_index(plan, p.sid) = 0
               THEN "subtask not found" ELSE "current set", "none")

set_current_subtask(plan, st, p) ==
    IF p.sid = 0 THEN Reply(plan, st, FALSE, "missing subtask_id", "none")
    ELSE IF _find_subtask_index(plan, p.sid) = 0
    THEN Reply(plan, st, FALSE, "subtask not found", "none")
    ELSE Reply(plan, [st EXCEPT !.current = p.sid], TRUE, "current set", "none")

\* a patch that is not a dict (a list, a string); isinstance(patch, dict)
NonDictPatch == [nondict |-> TRUE]

IsDict(patch) == "nondict" \notin DOMAIN patch

update_subtask(plan, st, p) ==
    LET idx == _find_subtask_index(plan, p.sid)
    IN  IF p.sid = 0 THEN Reply(plan, st, FALSE, "missing subtask_id", "none")
        ELSE IF idx = 0 THEN Reply(plan, st, FALSE, "subtask not found", "none")
        ELSE IF ~IsDict(p.patch) \/ DOMAIN p.patch = {}
        THEN Reply(plan, st, FALSE, "patch empty", "none")
        ELSE IF DOMAIN p.patch \cap {"title", "notes", "status"} = {}
        THEN Reply(plan, st, FALSE, "patch has no updatable field", "none")
        ELSE Reply([plan EXCEPT ![idx] =
                      [@ EXCEPT
                         !.title = IF "title" \in DOMAIN p.patch THEN p.patch["title"] ELSE @,
                         !.notes = IF "notes" \in DOMAIN p.patch THEN p.patch["notes"] ELSE @,
                         !.status = IF "status" \in DOMAIN p.patch THEN p.patch["status"] ELSE @]],
                   st, TRUE, "subtask updated", "none")

NewSubtask(plan, p) ==
    Subtask(IF p.newid # 0 THEN p.newid ELSE _generate_subtask_id(plan),
            p.title,
            IF p.pstatus = "" THEN "pending" ELSE p.pstatus,
            <<>>)

insert_subtask(plan, st, p) ==
    IF p.title = "" THEN Reply(plan, st, FALSE, "missing title", "none")
    ELSE IF p.after # 0 /\ _find_subtask_index(plan, p.after) = 0
    THEN Reply(plan, st, FALSE, "after_id not found", "none")
    ELSE LET insert_index == IF p.after # 0 THEN _find_subtask_index(plan, p.after)
                             ELSE Len(plan)
         IN  Reply(InsertAt(plan, insert_index, NewSubtask(plan, p)),
                   st, TRUE, "subtask inserted", "none")

append_subtask(plan, st, p) ==
    IF p.title = "" THEN Reply(plan, st, FALSE, "missing title", "none")
    ELSE Reply(Append(plan, NewSubtask(plan, p)), st, TRUE, "subtask appended", "none")

AdoptedMarker == "[adopted reviewer revision]"

\* faulty variants of apply_reviewer_revision
ApplyWithoutCache(plan, st, p) ==
    LET idx == _find_subtask_index(plan, p.sid)
    IN  IF p.sid = 0 \/ idx = 0 THEN Reply(plan, st, FALSE, "subtask not found", "none")
        ELSE Reply([plan EXCEPT ![idx] = [@ EXCEPT !.status = "done"]],
                   st, TRUE, "revision adopted", "none")

ApplyWithoutMarker(plan, st, p) ==
    LET idx == _find_subtask_index(plan, p.sid)
    IN  IF p.sid = 0 \/ p.sid \notin DOMAIN st.revisions \/ idx = 0
        THEN Reply(plan, st, FALSE, "revised_text not found", "none")
        ELSE Reply([plan EXCEPT ![idx] =
                      [@ EXCEPT !.output = st.revisions[p.sid].text, !.status = "done"]],
                   st, TRUE, "revision adopted", "none")

apply_reviewer_revision(plan, st, p) ==
    LET idx == _find_subtask_index(plan, p.sid)
    IN  IF p.sid = 0 THEN Reply(plan, st, FALSE, "missing subtask_id", "none")
        ELSE IF p.sid \notin DOMAIN st.revisions
        THEN Reply(plan, st, FALSE, "revised_text not found", "none")
        ELSE IF idx = 0 THEN Reply(plan, st, FALSE, "subtask not found", "none")
        ELSE Reply([plan EXCEPT ![idx] =
                      [@ EXCEPT !.output = st.revisions[p.sid].text,
                                !.status = "done",
                                !.notes = <<AdoptedMarker>> \o @]],
                   st, TRUE, "revision adopted", "none")

skip_subtask(plan, st, p) ==
    LET idx == _find_subtask_index(plan, p.sid)
    IN  IF p.sid = 0 THEN Reply(plan, st, FALSE, "missing subtask_id", "none")
        ELSE IF idx = 0 THEN Reply(plan, st, FALSE, "subtask not found", "none")
        ELSE Reply([plan EXCEPT ![idx] =
                      [@ EXCEPT !.status = "skipped",
                                !.notes = IF p.reason # "" THEN <<p.reason>> ELSE @]],
                   [st EXCEPT !.current = IF @ = p.sid THEN 0 ELSE @],
                   TRUE, "subtask skipped", "none")

\* execute_command up to the point where the branch persists and renders
Dispatch(cmd, p, plan, st) ==
    IF cmd = "" THEN Reply(plan, st, FALSE, "empty command", "none")
    ELSE IF ReentrancyGuard(st, cmd)
    THEN Reply(plan, st, FALSE, "execution already running", "none")
    ELSE IF LockGate(st, cmd)
    THEN Reply(plan,
               add_orchestrator_message(st, "orchestrator", [kind |-> "locked", target |-> 0]),
               FALSE, "Plan editing is disabled after lock.", "none")
    ELSE CASE cmd = "plan" -> Reply(plan, st, TRUE, "current plan", "none")
           [] cmd = "confirm_plan" -> confirm_plan(plan, st)
           [] cmd = "next" -> next_command(plan, st)
           [] cmd = "all" -> all_command(plan, st)
           [] cmd = "set_current_subtask" -> set_current_subtask(plan, st, p)
           [] cmd = "update_subtask" -> update_subtask(plan, st, p)
           [] cmd = "insert_subtask" -> insert_subtask(plan, st, p)
           [] cmd = "append_subtask" -> append_subtask(plan, st, p)
           [] cmd = "apply_reviewer_revision" -> apply_reviewer_revision(plan, st, p)
           [] cmd = "skip_subtask" -> skip_subtask(plan, st, p)


\* api_models.CommandRequest.command: the kinds the API accepts
CommandKinds ==
    {"plan", "next", "all", "confirm_plan", "ask", "set_current_subtask",
     "update_subtask", "insert_subtask", "append_subtask", "skip_subtask",
     "apply_reviewer_revision"}

\* what the external agents of one request do: a call raises, or the intent
\* agent classifies the text (kind after _normalize_intent_kind, target)
AgentOutcome(raises, kind, target) ==
    [raises |-> raises, kind |-> kind, target |-> target,
     instructions |-> "", planner |-> "fails"]

\* an intent with instructions, and what the planner does if it is called
Intent(kind, target, instructions, planner) ==
    [raises |-> FALSE, kind |-> kind, target |-> target,
     instructions |-> instructions, planner |-> planner]

Quiet == AgentOutcome(FALSE, "REQUEST_OTHER", 0)

AgentOutcomes == {AgentOutcome(TRUE, "", 0), Quiet, AgentOutcome(FALSE, "TRIGGER_REDO", 1)}

\* the branches of execute_command that call the intent agent and the
\* coordinator: `ask` with a question (the payload's question is kept in
\* reason) and every text that is not a command
CallsAgents(cmd, p) ==
    \/ cmd = "ask" /\ p.reason # ""
    \/ cmd # "" /\ cmd \notin CommandKinds

\* run_orchestrator_turn: the classified intent is queued and announced
run_orchestrator_turn(st, agent) ==
    add_orchestrator_message(
        [st EXCEPT !.orch_events = Append(@,
            [kind |-> agent.kind, target |-> agent.target,
             instructions |-> agent.instructions, source |-> "intent",
             planner |-> agent.planner])],
        "orchestrator", [kind |-> "intent-parser", target |-> agent.target])

\* the free-text branch without an interactive coordinator, which is also
\* the `ask` branch of a locked plan: the user's message, the intent, the
\* coordinator's answer, the consumption of the queue
answer_turn(plan, st, agent, now) ==
    LET st1 == add_orchestrator_message(st, "user", [kind |-> "text", target |-> 0])
        c == consume_orchestrator_events(plan, run_orchestrator_turn(st1, agent), now)
    IN  IF c.raised THEN Reply(plan, st, FALSE, "TypeError", "none")
        ELSE Reply(c.plan, c.st, TRUE, "answer", "none")

AlwaysOk(cmd, p, plan, st, agent, now) == Reply(plan, st, TRUE, "", "none")

\* execute_command up to the point where the branch persists and renders,
\* with the branches that call the agents (`ask` on a locked plan only)
DispatchWithAgents(cmd, p, plan, st, agent, now) ==
    IF cmd = "ask" /\ p.reason = ""
    THEN Reply(plan, st, FALSE, "missing question", "none")
    ELSE IF CallsAgents(cmd, p) THEN answer_turn(plan, st, agent, now)
    ELSE Dispatch(cmd, p, plan, st)

\* ------------------------------------------------ the subtask pipeline
ChapterExpansion == -1

SetSub(w, idx, sub) == [w EXCEPT !.plan = [@ EXCEPT ![idx] = sub]]

\* run_next_pending_subtask, head of the while loop up to the worker call
LoopHead(w, idx, now) ==
    LET w1 == SetSub(w, idx, [w.plan[idx] EXCEPT !.status = "in_progress"])
    IN  _record_progress_event(w1, "worker", w.plan[idx].id, "start", now)

\* run_next_with_state up to the worker call
\* (only called with a pending subtask at idx)
RunNextBegin(w, idx, now) ==
    LET w1 == [w EXCEPT !.st = [@ EXCEPT !.status = "running", !.current = w.plan[idx].id]]
    IN  LoopHead(save_orchestrator_state(w1), idx, now)

batch_mode(w, idx) == w.plan[idx].id \notin 1..SetupCount /\ w.st.novel_mode

\* _enqueue_reviewer_batch_task
_enqueue_reviewer_batch_task(st, sub) == [st EXCEPT !.batch_tasks = Append(@, sub)]

AlwaysReady(st) == TRUE

BatchReady(st) == Len(st.batch_tasks) >= BatchThreshold

\* a pipeline that reports the worker's finish before it sends the result
FinishBeforeResult(w, idx, now) ==
    LET sid == w.plan[idx].id
        w1 == _record_progress_event(w, "worker", sid, "finish", now)
        w2 == send(w1, "worker", "subtask_result", sid, "", "", now)
        w3 == save_orchestrator_state(
                [w2 EXCEPT !.st = [@ EXCEPT !.worker_outputs =
                                      Append(@, [subtask_id |-> sid, timestamp |-> now])]])
        w4 == SetSub(w3, idx, [w3.plan[idx] EXCEPT !.output = "worker output"])
        w5 == _record_progress_event(w4, "reviewer", sid, "start", now)
    IN  IF batch_mode(w, idx)
        THEN [w5 EXCEPT !.st = _enqueue_reviewer_batch_task(@, sid)]
        ELSE w5

\* run_next_pending_subtask from the worker's return up to the reviewer call
AfterWorker(w, idx, now) ==
    LET sid == w.plan[idx].id
        w1 == send(w, "worker", "subtask_result", sid, "", "", now)
        w2 == save_orchestrator_state(
                [w1 EXCEPT !.st = [@ EXCEPT !.worker_outputs =
                                      Append(@, [subtask_id |-> sid, timestamp |-> now])]])
        w3 == SetSub(w2, idx, [w2.plan[idx] EXCEPT !.output = "worker output"])
        w4 == _record_progress_event(w3, "worker", sid, "finish", now)
        w5 == _record_progress_event(w4, "reviewer", sid, "start", now)
    IN  IF batch_mode(w, idx)
        THEN [w5 EXCEPT !.st = _enqueue_reviewer_batch_task(@, sid)]
        ELSE w5

\* the reviewer is called unless the batch is still filling
NeedsReviewer(w, idx) == ~batch_mode(w, idx) \/ BatchReady(w.st)

\* a coordinator that never resets the counter
KeepsCounting(st) == st

\* _call_coordinator: the reset of the batch counter before the prompt is built
_call_coordinator(st) ==
    IF st.novel_mode /\ st.batch_counter # 0 /\ st.batch_counter % ResetEvery = 0
    THEN [st EXCEPT !.batch_counter = 0]
    ELSE st

\* a finalizer that leaves the pending batch as it is
KeepsBatch(st, batch_tasks, reason, revised) == st

\* _finalize_reviewer_batch
RECURSIVE CacheBatch(_, _, _, _, _, _)
CacheBatch(st, tasks, i, batch_id, reason, revised) ==
    IF i > Len(tasks) THEN st
    ELSE LET primary == tasks[Len(tasks)]
             text == IF revised # "" /\ tasks[i] = primary THEN revised ELSE reason
         IN  CacheBatch(_cache_reviewer_revision_entry(st, tasks[i], text, batch_id),
                        tasks, i + 1, batch_id, reason, revised)

_finalize_reviewer_batch(st, batch_tasks, reason, revised) ==
    LET batch_id == st.batch_counter + 1
        st1 == [st EXCEPT !.batch_counter = batch_id]
        st2 == CacheBatch(st1, batch_tasks, 1, batch_id, reason, revised)
    IN  [st2 EXCEPT !.batch_tasks = <<>>]

\* _append_chapter_tasks_from_planner_stub: the planner's progress event is
\* recorded; _apply_planner_result_to_state then builds Subtask(...,
\* metadata=...) and plan_model.Subtask has no such field, so the call raises,
\* the except clause returns and nothing is appended
_append_chapter_tasks_from_planner_stub(w, now) ==
    IF ~w.st.novel_mode THEN w
    ELSE _record_progress_event(w, "planner", ChapterExpansion, "start", now)

AlwaysPending(w, idx, decision, reason, now) ==
    send(SetSub(w, idx, [w.plan[idx] EXCEPT !.status = "pending"]),
         "coordinator", "coord_decision", w.plan[idx].id, decision, reason, now)

\* run_next_pending_subtask from the decision to the end of the iteration
AfterDecision(w, idx, decision, reason, now) ==
    LET sid == w.plan[idx].id
        w1 == _record_progress_event(w, "reviewer", sid, "finish", now)
        notes == IF reason = "" THEN <<>> ELSE <<reason>>
        w2 == IF decision = "ACCEPT"
              THEN LET wa == SetSub(w1, idx, [w1.plan[idx] EXCEPT !.status = "done", !.notes = notes])
                   IN  IF sid = SetupCount THEN _append_chapter_tasks_from_planner_stub(wa, now)
                       ELSE wa
              ELSE SetSub(w1, idx, [w1.plan[idx] EXCEPT !.status = "pending", !.notes = notes])
    IN  send(w2, "coordinator", "coord_decision", sid, decision, reason, now)

\* the reviewer returned (decision, reason, revised_text)
Reviewed(w, idx, decision, reason, revised, now) ==
    LET sid == w.plan[idx].id
        st0 == _call_coordinator(w.st)
    IN  IF batch_mode(w, idx)
        THEN AfterDecision(
                [w EXCEPT !.st = _finalize_reviewer_batch(st0, w.st.batch_tasks, reason, revised)],
                idx, decision, reason, now)
        ELSE LET reason1 == IF revised # "" /\ reason = ""
                            THEN "Reviewer provided revised text." ELSE reason
             IN  AfterDecision(
                    [w EXCEPT !.st = _cache_reviewer_revision_entry(st0, sid, revised, 0)],
                    idx, decision, reason1, now)

WaitForBatch == "waiting for the batch to reach 3"

\* run_next_with_state after run_next_pending_subtask returned
RunNextEnd(w) ==
    save_orchestrator_state([w EXCEPT !.st = [@ EXCEPT !.status = "idle", !.current = 0]])

\* _mark_background_error
_mark_background_error(w) ==
    LET st == from_dict(w.dstate)
        st1 == add_orchestrator_message(
                  [st EXCEPT !.status = "error", !.last_error = "exc"],
                  "orchestrator", [kind |-> "background_failed", target |-> 0])
    IN  [w EXCEPT !.dstate = st1]


\* ------------------------------------------------------------ actions
IdleRun == [kind |-> "none", pc |-> "idle", plan |-> <<>>, st |-> NewState(FALSE, FALSE), idx |-> 0]

IdleSlot == [busy |-> FALSE, cmd |-> "", p |-> NoPayload, plan |-> <<>>, st |-> NewState(FALSE, FALSE)]

NoSnapshot == <<>>

\* an operation whose whole effect is to render the session: the `plan`
\* command, the empty command, a snapshot read
Rendering(op, cmd) == op = "get" \/ (op = "command" /\ cmd \in {"plan", ""})

ResultWith(op, cmd, sid, loaded, ok, msg, sched, snapshot, streak) ==
    [op |-> op, cmd |-> cmd, sid |-> sid, loaded |-> loaded, ok |-> ok, msg |-> msg,
     sched |-> sched, snapshot |-> snapshot, streak |-> streak]

\* streak counts the renderings that followed one another with nothing else
\* in between
Result(op, cmd, sid, loaded, ok, msg, sched, snapshot) ==
    ResultWith(op, cmd, sid, loaded, ok, msg, sched, snapshot,
               IF Rendering(op, cmd) THEN last.streak + 1 ELSE 0)

InFlight == {r \in DOMAIN runs : runs[r].pc # "idle"}

Commit(w) ==
    /\ diskPlan' = w.dplan
    /\ diskState' = w.dstate
    /\ envLog' = w.elog
    /\ progressLog' = w.plog

\* the thread slot a new background task takes, 0 when all are taken
FreeRun ==
    IF \E r \in DOMAIN runs : runs[r].pc = "idle"
    THEN CHOOSE r \in DOMAIN runs :
            runs[r].pc = "idle" /\ \A q \in DOMAIN runs : runs[q].pc = "idle" => r <= q
    ELSE 0

\* the part of the snapshot the API's recovery reads back: the plan as
\* state.json held it when the snapshot was built, and the state's to_dict()
Cached(w) == [plan |-> w.dplan, orchestrator_state |-> w.st]

\* the end of every branch of execute_command: persist and render (the
\* empty command renders first); cached is what save_snapshot would keep
Respond(w0, cmd, now) ==
    LET r == IF cmd = "" THEN _render_session_snapshot(w0, now)
             ELSE _render_session_snapshot(_persist_plan_state(w0), now)
    IN  [w |-> IF cmd = "" THEN _persist_plan_state(r.w) ELSE r.w,
         snapshot |-> r.snapshot,
         cached |-> Cached(r.w)]

\* execute_command from the loaded plan and state to the returned snapshot;
\* _start_background_task hands the handler's own plan and state objects to
\* the new thread. issued = 1 when the command is counted here.
Handle(cmd, p, plan, st, issued) ==
    LET d == Dispatch(cmd, p, plan, st)
        r == Respond(World(d.plan, d.st), cmd, clock)
        w == r.w
    IN  /\ d.sched # "none" => FreeRun # 0
        /\ UNCHANGED api
        /\ Commit(w)
        /\ clock' = clock + 1
        /\ runs' = IF d.sched = "none" THEN runs
                   ELSE [runs EXCEPT ![FreeRun] =
                            [kind |-> d.sched, pc |-> "start", plan |-> w.plan,
                             st |-> w.st, idx |-> 0]]
        /\ last' = Result("command", cmd, p.sid, st.status, d.ok, d.msg,
                          d.sched # "none", r.snapshot)
        /\ hist' = [hist EXCEPT !.cmds = @ + issued,
                                !.overlap = @ \/ (d.sched # "none" /\ InFlight # {})]

\* api.post_command: a dispatcher thread loads plan and state
Load(t, cmd, p) ==
    /\ ~slots[t].busy
    /\ hist.cmds < MaxCmds
    /\ slots' = [slots EXCEPT ![t] =
                    [busy |-> TRUE, cmd |-> cmd, p |-> p,
                     plan |-> _load_plan, st |-> load_orchestrator_state]]
    /\ hist' = [hist EXCEPT !.cmds = @ + 1]
    /\ UNCHANGED <<diskPlan, diskState, envLog, progressLog, clock, runs, last, api>>

\* the dispatcher thread runs the command it loaded for
Exec(t) ==
    /\ slots[t].busy
    /\ Handle(slots[t].cmd, slots[t].p, slots[t].plan, slots[t].st, 0)
    /\ slots' = [slots EXCEPT ![t] = IdleSlot]

\* a command handled with no other thread in between
Command(cmd, p, max) ==
    /\ hist.cmds < max
    /\ Handle(cmd, p, _load_plan, load_orchestrator_state, 1)
    /\ UNCHANGED slots

\* api.get_session_snapshot: the state is loaded and the snapshot built,
\* nothing is written
GetSnapshot ==
    /\ hist.gets < MaxGets
    /\ last' = Result("get", "", 0, diskState.status, TRUE, "", FALSE,
                      build_session_snapshot(World(_load_plan, load_orchestrator_state)))
    /\ hist' = [hist EXCEPT !.gets = @ + 1]
    /\ UNCHANGED <<diskPlan, diskState, envLog, progressLog, clock, runs, slots, api>>

\* a reviewer outside the pipeline sends a redo decision for a subtask
ExternalRedo(sub) ==
    /\ hist.ext < MaxExternal
    /\ envLog' = send(World(<<>>, diskState), "reviewer", "coord_decision",
                      sub, "redo", "external", clock).elog
    /\ clock' = clock + 1
    /\ hist' = [hist EXCEPT !.ext = @ + 1]
    /\ last' = Result("external", "", sub, diskState.status, TRUE, "", FALSE, NoSnapshot)
    /\ UNCHANGED <<diskPlan, diskState, progressLog, runs, slots, api>>

\* a role (worker, reviewer) sends an envelope through MessageBus.send; the
\* result keeps the payload type, subtask id and decision it was called with
BusSend(source, payload_type, sub, decision, max) ==
    LET env == Envelope(source, payload_type, sub, decision, "", clock)
        w == send(World(<<>>, diskState), source, payload_type, sub, decision, "", clock)
    IN  /\ hist.sends < max
        /\ envLog' = w.elog
        /\ clock' = clock + 1
        /\ hist' = [hist EXCEPT !.sends = @ + 1]
        /\ last' = Result("send", payload_type, sub, source,
                          validate_envelope(env), decision, FALSE, NoSnapshot)
        /\ UNCHANGED <<diskPlan, diskState, progressLog, runs, slots, api>>

\* execute_command on the loaded world w, for the commands that start no
\* background run: an agent call that raises, or a consumption that raises,
\* ends the handler before anything is persisted
execute_command(w, cmd, p, agent, now) ==
    IF CallsAgents(cmd, p) /\ agent.raises
    THEN [raised |-> TRUE, w |-> w, ok |-> FALSE, msg |-> "exception",
          snapshot |-> NoSnapshot, cached |-> <<>>]
    ELSE LET d == DispatchWithAgents(cmd, p, w.plan, w.st, agent, now)
             r == Respond([w EXCEPT !.plan = d.plan, !.st = d.st], cmd, now)
         IN  IF d.msg = "TypeError"
             THEN [raised |-> TRUE, w |-> w, ok |-> FALSE, msg |-> "exception",
                   snapshot |-> NoSnapshot, cached |-> <<>>]
             ELSE [raised |-> FALSE, w |-> r.w, ok |-> d.ok, msg |-> d.msg,
                   snapshot |-> r.snapshot, cached |-> <<r.cached>>]

\* the outcomes an action may be called with: one fixed outcome when the
\* command calls no agent; `ask` with a question only on a locked plan
AgentInput(cmd, p, st, agent) ==
    /\ CallsAgents(cmd, p) \/ agent = Quiet
    /\ (cmd = "ask" /\ p.reason # "") => st.plan_locked

\* (command or "").strip() on the texts of the model
strip(text) == IF text = "  " THEN "" ELSE text

\* normalized.lower().lstrip("/") on the texts of the model
bare_cmd(normalized) ==
    CASE normalized = "/plan" -> "plan"
      [] normalized = "/confirm_plan" -> "confirm_plan"
      [] OTHER -> normalized

\* Orchestrator.execute_command called directly (tests, the CLI) with any
\* text; the result keeps the text as it was typed
TextCommand(text, p, agent, max) ==
    LET st == load_orchestrator_state
        cmd == bare_cmd(strip(text))
    IN  /\ hist.cmds < max
        /\ AgentInput(cmd, p, st, agent)
        /\ \E x \in {execute_command(World(_load_plan, st), cmd, p, agent, clock)} :
              /\ Commit(x.w)
              /\ last' = Result(IF x.raised THEN "raised" ELSE "command", text, p.sid,
                                st.status, x.ok, x.msg, FALSE, x.snapshot)
        /\ clock' = clock + 1
        /\ hist' = [hist EXCEPT !.cmds = @ + 1]
        /\ UNCHANGED <<runs, slots, api>>

RehydrateNothing(w, cached) == w

\* api.post_command, the except FileNotFoundError clause: state.json from
\* the cached plan, orchestrator_state.json from the cached state through
\* OrchestratorState.from_dict
Rehydrate(w, cached) ==
    [w EXCEPT !.dplan = cached.plan, !.dstate = from_dict(cached.orchestrator_state)]

\* api.post_command: the user's command is logged, execute_command runs; on
\* FileNotFoundError the files are rehydrated from the cached snapshot and
\* execute_command runs once more; 404 without a cached snapshot, 500 when
\* an attempt raises anything else
PostCommand(cmd, p, agent, max) ==
    LET w0 == log_user_command(World(<<>>, NewState(FALSE, FALSE)), cmd, clock)
        missing == ~api.plan_file \/ ~api.state_file
        loadable == ~missing \/ api.cache # <<>>
        eff == IF missing /\ api.cache # <<>> THEN Rehydrate(w0, api.cache[1]) ELSE w0
        wl == [eff EXCEPT !.plan = eff.dplan, !.st = from_dict(eff.dstate)]
    IN  /\ hist.cmds < max
        /\ cmd \in CommandKinds
        /\ AgentInput(cmd, p, wl.st, agent)
        /\ IF ~loadable
           THEN /\ Commit(w0)
                /\ api' = [api EXCEPT !.attempts = 1]
                /\ last' = Result("raised", cmd, p.sid, "", FALSE, "404", FALSE, NoSnapshot)
           ELSE \E x \in {execute_command(wl, cmd, p, agent, clock)} :
                /\ Commit(x.w)
                /\ api' = [api EXCEPT !.plan_file = @ \/ missing,
                                      !.state_file = @ \/ missing,
                                      !.cache = IF x.raised THEN @ ELSE x.cached,
                                      !.attempts = IF missing THEN 2 ELSE 1]
                /\ last' = IF x.raised
                           THEN Result("raised", cmd, p.sid, wl.st.status, FALSE, "500",
                                       FALSE, NoSnapshot)
                           ELSE Result("command", cmd, p.sid, wl.st.status, x.ok, x.msg,
                                       FALSE, x.snapshot)
        /\ clock' = clock + 1
        /\ hist' = [hist EXCEPT !.cmds = @ + 1]
        /\ UNCHANGED <<runs, slots>>

\* a crash or a cleanup outside the program removes primary files of the
\* session, and with db also the cached snapshot row; a removed file has
\* no content
CleanUp(plan_file, state_file, db, max) ==
    /\ api.cleanups < max
    /\ plan_file \/ state_file
    /\ api' = [api EXCEPT !.plan_file = @ /\ ~plan_file,
                          !.state_file = @ /\ ~state_file,
                          !.cache = IF db THEN <<>> ELSE @,
                          !.cleanups = @ + 1]
    /\ diskPlan' = IF plan_file THEN <<>> ELSE diskPlan
    /\ diskState' = IF state_file THEN NewState(FALSE, FALSE) ELSE diskState
    /\ last' = Result("cleanup", "", 0, "", TRUE, "", FALSE, NoSnapshot)
    /\ UNCHANGED <<envLog, progressLog, clock, runs, slots, hist>>

\* ---------------------------------------------- background pipeline runs
RunWorld(r) == World(runs[r].plan, runs[r].st)

BgResult == Result("bg", "", 0, diskState.status, TRUE, "", FALSE, NoSnapshot)

SetRun(r, pc, w, idx) ==
    runs' = [runs EXCEPT ![r] =
                IF pc = "idle" THEN IdleRun
                ELSE [@ EXCEPT !.pc = pc, !.plan = w.plan, !.st = w.st, !.idx = idx]]

\* the loop of run_all_pending, or the return of run_next_with_state into
\* _run_next_bg: what the thread does between two subtasks
Continue(r, w) ==
    \E idx \in {_next_pending_subtask(w.plan)} :
        IF runs[r].kind = "all" /\ idx # 0
        THEN \E w1 \in {RunNextBegin(w, idx, clock)} :
                Commit(w1) /\ SetRun(r, "worker", w1, idx)
        ELSE IF runs[r].kind = "all"
        THEN \E w1 \in {_persist_plan_state(
                            save_orchestrator_state(
                                [w EXCEPT !.st = [@ EXCEPT !.status = "completed"]]))} :
                Commit(w1) /\ SetRun(r, "idle", w1, 0)
        ELSE \E w1 \in {_persist_plan_state(w)} :
                Commit(w1) /\ SetRun(r, "idle", w1, 0)

\* the thread starts: run_next_with_state or run_all_pending up to the
\* first worker call
BgStart(r) ==
    /\ runs[r].pc = "start"
    /\ \E w \in {RunWorld(r)} :
       \E idx \in {_next_pending_subtask(w.plan)} :
           IF runs[r].kind = "next"
           THEN IF idx = 0 THEN Continue(r, w)
                ELSE \E w1 \in {RunNextBegin(w, idx, clock)} :
                        Commit(w1) /\ SetRun(r, "worker", w1, idx)
           ELSE \E w0 \in {save_orchestrator_state(
                               [w EXCEPT !.st = [@ EXCEPT !.status = "running"]])} :
                   Continue(r, w0)
    /\ clock' = clock + 1
    /\ last' = BgResult
    /\ UNCHANGED <<slots, hist, api>>


\* the worker returned its output
BgWorker(r) ==
    /\ runs[r].pc = "worker"
    /\ \E idx \in {runs[r].idx} :
       \E w1 \in {AfterWorker(RunWorld(r), idx, clock)} :
           /\ IF NeedsReviewer(w1, idx)
              THEN Commit(w1) /\ SetRun(r, "reviewer", w1, idx)
              ELSE \E w2 \in {RunNextEnd(AfterDecision(w1, idx, "ACCEPT", WaitForBatch, clock))} :
                      Commit(w2) /\ SetRun(r, "tail", w2, idx)
           /\ hist' = [hist EXCEPT
                         !.outputs = IF batch_mode(w1, idx) THEN @ + 1 ELSE @,
                         !.reviews = IF batch_mode(w1, idx) /\ NeedsReviewer(w1, idx)
                                     THEN @ + 1 ELSE @]
    /\ clock' = clock + 1
    /\ last' = BgResult
    /\ UNCHANGED <<slots, api>>

\* the reviewer returned; _parse_reviewer_response gave (decision, reason,
\* revised_text)
BgReturned(r, decision, reason, revised) ==
    /\ runs[r].pc = "reviewer"
    /\ \E idx \in {runs[r].idx} :
       \E w1 \in {Reviewed(RunWorld(r), idx, decision, reason, revised, clock)} :
           /\ IF decision = "ACCEPT"
              THEN \E w2 \in {RunNextEnd(w1)} :
                      Commit(w2) /\ SetRun(r, "tail", w2, idx)
              ELSE \E w2 \in {LoopHead(w1, idx, clock)} :
                      Commit(w2) /\ SetRun(r, "worker", w2, idx)
           /\ hist' = [hist EXCEPT !.redos = IF decision = "REDO" THEN @ + 1 ELSE @]
    /\ clock' = clock + 1
    /\ last' = BgResult
    /\ UNCHANGED <<slots, api>>

\* the same, with at most MaxRedo REDO answers in a behaviour
BgReview(r, decision, reason, revised) ==
    /\ decision = "REDO" => hist.redos < MaxRedo
    /\ BgReturned(r, decision, reason, revised)

\* between two subtasks of an `all` run, or at the end of a `next` run
BgTail(r) ==
    /\ runs[r].pc = "tail"
    /\ \E w \in {RunWorld(r)} : Continue(r, w)
    /\ clock' = clock + 1
    /\ last' = BgResult
    /\ UNCHANGED <<slots, hist, api>>

\* the worker or the reviewer call raised: _start_background_task's wrapper
\* catches it and the thread ends
BgFail(r) ==
    /\ runs[r].pc \in {"worker", "reviewer"}
    /\ hist.fails < MaxFail
    /\ \E w1 \in {_mark_background_error(RunWorld(r))} :
          Commit(w1) /\ SetRun(r, "idle", w1, 0)
    /\ hist' = [hist EXCEPT
                  !.fails = @ + 1,
                  !.rfails = IF runs[r].pc = "reviewer" THEN @ + 1 ELSE @]
    /\ clock' = clock + 1
    /\ last' = BgResult
    /\ UNCHANGED <<slots, api>>

\* ------------------------------------------------------ initial states
\* cmds, gets, ext, redos, fails: how many commands, snapshot reads, outside
\* redo decisions, REDO decisions of the pipeline and failed calls so far;
\* outputs, reviews: worker outputs and reviewer calls in batch mode;
\* rfails: reviewer calls that raised; overlap: a run was started while
\* another was in flight
NoHist ==
    [cmds |-> 0, gets |-> 0, ext |-> 0, redos |-> 0, fails |-> 0,
     outputs |-> 0, reviews |-> 0, rfails |-> 0, overlap |-> FALSE, sends |-> 0]

\* Plan.from_outline: every subtask pending, ids t1, t2, ...
from_outline(n) == [i \in 1..n |-> Subtask(i, "title", "pending", <<>>)]

\* init_session: the plan is saved, the state is idle, and the plan is
\* locked exactly in novel mode
InitWith(plan, novel) ==
    /\ diskPlan = plan
    /\ diskState = NewState(novel, novel)
    /\ envLog = <<>>
    /\ progressLog = <<>>
    /\ clock = 1
    /\ runs = [r \in 1..MaxRuns |-> IdleRun]
    /\ slots = [t \in 1..NumThreads |-> IdleSlot]
    /\ last = ResultWith("init", "", 0, "idle", TRUE, "", FALSE, NoSnapshot, 0)
    /\ hist = NoHist
    /\ api = [plan_file |-> TRUE, state_file |-> TRUE,
              cache |-> <<[plan |-> plan, orchestrator_state |-> NewState(novel, novel)]>>,
              attempts |-> 0, cleanups |-> 0]

Init == InitWith(from_outline(NumSubtasks), FALSE)

Bg ==
    \E r \in 1..MaxRuns :
        \/ BgStart(r)
        \/ BgWorker(r)
        \/ \E d \in {"ACCEPT", "REDO"} : BgReview(r, d, "", "")
        \/ BgTail(r)
        \/ BgFail(r)

\* dispatcher threads of the API and background runs, freely interleaved
Next ==
    \/ \E t \in 1..NumThreads, cmd \in {"plan", "confirm_plan", "next", "all"} :
          Load(t, cmd, NoPayload)
    \/ \E t \in 1..NumThreads : Exec(t)
    \/ Bg

Spec == Init /\ [][Next]_vars


\* ---------------------------------------------------------------------
\* Commands handled one at a time, background runs interleaved with them
NumSeqSubtasks == 2
MaxSeqCmds == 3
UnknownId == 9

SeqInit == InitWith(from_outline(NumSeqSubtasks), FALSE)

SeqInputs ==
    {<<"confirm_plan", NoPayload>>,
     <<"next", NoPayload>>,
     <<"set_current_subtask", Payload(2, <<>>, "", 0, 0, "", "")>>,
     <<"update_subtask", Payload(1, [status |-> "done"], "", 0, 0, "", "")>>,
     <<"insert_subtask", Payload(0, <<>>, "new", 1, 0, "", "")>>,
     <<"append_subtask", Payload(0, <<>>, "new", 0, 0, "", "")>>,
     <<"skip_subtask", Payload(2, <<>>, "", 0, 0, "", "skip")>>,
     <<"apply_reviewer_revision", Payload(1, <<>>, "", 0, 0, "", "")>>,
     <<"apply_reviewer_revision", Payload(2, <<>>, "", 0, 0, "", "")>>}

SeqBg ==
    \E r \in 1..MaxRuns :
        \/ BgStart(r)
        \/ BgWorker(r)
        \/ \E d \in {"ACCEPT", "REDO"}, revised \in {"", "revised text"} :
              BgReview(r, d, "", revised)
        \/ BgTail(r)
        \/ BgFail(r)

SeqNext ==
    \/ \E i \in SeqInputs : Command(i[1], i[2], MaxSeqCmds)
    \/ SeqBg

SpecSeq == SeqInit /\ [][SeqNext]_vars

\* ---------------------------------------------------------------------
\* Renderings: commands that only render, snapshot reads, a reviewer that
\* writes redo decisions from outside, and background runs
MaxRedoCmds == 2

RedoInit == InitWith(from_outline(NumSeqSubtasks), FALSE)

RedoNext ==
    \/ \E cmd \in {"plan", "", "next"} : Command(cmd, NoPayload, MaxRedoCmds)
    \/ \E sub \in {1, UnknownId} : ExternalRedo(sub)
    \/ GetSnapshot
    \/ Bg

SpecRedo == RedoInit /\ [][RedoNext]_vars

\* ---------------------------------------------------------------------
\* Novel mode after the setup subtasks: t1..t4 done, the chapters pending
MaxBatchCmds == 4

novel_plan ==
    [i \in 1..(SetupCount + NumChapters) |->
        Subtask(i, "title", IF i <= SetupCount THEN "done" ELSE "pending", <<>>)]

BatchInit == InitWith(novel_plan, TRUE)

BatchNext ==
    \/ Command("next", NoPayload, MaxBatchCmds)
    \/ Bg

SpecBatch == BatchInit /\ [][BatchNext]_vars

\* ------------------------------------------------------------- claims
\* C1: across every interleaving of commands and background runs, the
\* persisted plan_locked never changes from true to false.
C1_LockNeverReleased == [][diskState.plan_locked => diskState'.plan_locked]_vars

\* C3: a `next` or `all` whose loaded status is running is rejected with
\* ok = false, and the command schedules no background task.
C3_RunningRejectsNextAll ==
    [][\A t \in 1..NumThreads :
          (/\ slots[t].busy
           /\ ~slots'[t].busy
           /\ slots[t].cmd \in {"next", "all"}
           /\ slots[t].st.status = "running")
          => (/\ last'.op = "command"
              /\ ~last'.ok
              /\ ~last'.sched
              /\ runs' = runs)]_vars

C3_Witness ==
    /\ last.op = "command"
    /\ last.cmd \in {"next", "all"}
    /\ last.loaded = "running"
    /\ ~last.ok
    /\ InFlight # {}

\* C4: whenever the persisted status is running, exactly one background
\* pipeline run is in flight.
C4_RunningMeansOneRun == diskState.status = "running" => Cardinality(InFlight) = 1


\* a coord_decision ACCEPT for this subtask id is in the event log
HasAccept(id) ==
    \E k \in 1..Len(envLog) :
        /\ envLog[k].payload_type = "coord_decision"
        /\ envLog[k].subtask_id = id
        /\ envLog[k].decision = "ACCEPT"

\* C2: a persisted subtask has status done only if an ACCEPT decision for
\* its id has been appended to the event log, whichever operation set it.
C2_DoneOnlyAfterAccept ==
    \A i \in 1..Len(diskPlan) : diskPlan[i].status = "done" => HasAccept(diskPlan[i].id)

\* the event log holds, as the latest decision of some subtask, a redo newer
\* than the processed watermark: the next rendering consumes it
RedoOutstanding ==
    LET l == LatestDecisions(envLog, 1, [latest |-> <<>>, order |-> <<>>])
    IN  RedoEvents(l, 1, diskState.processed, {}, <<>>).new_events # <<>>

SubtaskList(plan) ==
    [i \in 1..Len(plan) |->
        [id |-> plan[i].id, title |-> plan[i].title,
         status |-> plan[i].status, notes |-> plan[i].notes]]

LockMessage == "Plan editing is disabled after lock."

\* a step that handles one command from load to returned snapshot
CommandStep == hist'.cmds = hist.cmds + 1 /\ last'.op = "command"

\* C5 as stated: on a locked plan each of the five structural commands
\* returns ok = false with the lock message and leaves the subtask list
\* (order, ids, titles, statuses, notes) and current_subtask_id unchanged.
C5_LockedEditsChangeNothing ==
    [][(CommandStep /\ diskState.plan_locked /\ last'.cmd \in PLAN_EDITING_KINDS)
        => (/\ ~last'.ok
            /\ last'.msg = LockMessage
            /\ SubtaskList(diskPlan') = SubtaskList(diskPlan)
            /\ diskState'.current = diskState.current)]_vars

\* C5 amended: the rejection always happens; the subtask list and
\* current_subtask_id stay unchanged when no redo decision is outstanding
\* for the rendering that ends the command.
C5_LockedEditsRejected ==
    [][(CommandStep /\ diskState.plan_locked /\ last'.cmd \in PLAN_EDITING_KINDS)
        => (/\ ~last'.ok
            /\ last'.msg = LockMessage
            /\ ~last'.sched
            /\ ~RedoOutstanding =>
                  (/\ SubtaskList(diskPlan') = SubtaskList(diskPlan)
                   /\ diskState'.current = diskState.current))]_vars

C5_Witness ==
    /\ last.op = "command"
    /\ last.cmd \in PLAN_EDITING_KINDS
    /\ ~last.ok
    /\ last.msg = LockMessage
    /\ diskState.plan_locked

\* C9 as stated: apply_reviewer_revision for an id without a cached revision
\* returns ok = false and leaves the plan unchanged.
C9_NoRevisionPlanUnchanged ==
    [][(/\ CommandStep
        /\ last'.cmd = "apply_reviewer_revision"
        /\ last'.sid \notin DOMAIN diskState.revisions)
        => (~last'.ok /\ diskPlan' = diskPlan)]_vars

\* C9 amended: ok = false always; the plan is unchanged when no redo decision
\* is outstanding for the rendering that ends the command.
C9_NoRevisionRejected ==
    [][(/\ CommandStep
        /\ last'.cmd = "apply_reviewer_revision"
        /\ last'.sid \notin DOMAIN diskState.revisions)
        => (/\ ~last'.ok
            /\ ~RedoOutstanding => diskPlan' = diskPlan)]_vars

C9_Witness ==
    /\ last.op = "command"
    /\ last.cmd = "apply_reviewer_revision"
    /\ ~last.ok
    /\ last.sid \notin DOMAIN diskState.revisions
    /\ DOMAIN diskState.revisions # {}

\* what C10 says of the plan after the command, of the plan before and of
\* the loaded state
Adopted(before, after, st, sid) ==
    LET idx == _find_subtask_index(before, sid)
    IN  /\ Len(after) = Len(before)
        /\ after[idx].output = st.revisions[sid].text
        /\ after[idx].status = "done"
        /\ after[idx].notes = <<AdoptedMarker>> \o before[idx].notes
        /\ \A j \in 1..Len(before) : j # idx => after[j] = before[j]

\* C10 as stated: with a cached revision the command writes the cached text
\* into the subtask's output, sets it done, prefixes the notes with the
\* marker, returns ok = true and modifies no other subtask.
C10_RevisionAdopted ==
    [][(/\ CommandStep
        /\ last'.cmd = "apply_reviewer_revision"
        /\ last'.sid \in DOMAIN diskState.revisions
        /\ _find_subtask_index(diskPlan, last'.sid) # 0)
        => (last'.ok /\ Adopted(diskPlan, diskPlan', diskState, last'.sid))]_vars

\* C10 amended: ok = true always; the plan is as stated when no redo decision
\* is outstanding for the rendering that ends the command.
C10_RevisionAdoptedUnlessRedo ==
    [][(/\ CommandStep
        /\ last'.cmd = "apply_reviewer_revision"
        /\ last'.sid \in DOMAIN diskState.revisions
        /\ _find_subtask_index(diskPlan, last'.sid) # 0)
        => (/\ last'.ok
            /\ ~RedoOutstanding => Adopted(diskPlan, diskPlan', diskState, last'.sid))]_vars

C10_Witness ==
    /\ last.op = "command"
    /\ last.cmd = "apply_reviewer_revision"
    /\ last.ok
    /\ \E i \in 1..Len(diskPlan) :
          /\ diskPlan[i].id = last.sid
          /\ diskPlan[i].status = "done"
          /\ diskPlan[i].output = "revised text"
          /\ Len(diskPlan[i].notes) >= 1
          /\ diskPlan[i].notes[1] = AdoptedMarker


\* the subtasks whose latest decision in the event log is a redo newer than
\* the watermark
RedoTargets ==
    LET l == LatestDecisions(envLog, 1, [latest |-> <<>>, order |-> <<>>])
        ev == RedoEvents(l, 1, diskState.processed, {}, <<>>).new_events
    IN  {ev[i].target : i \in 1..Len(ev)}

\* a background run is between the start of the worker and the decision of
\* the reviewer for this subtask
MidPipeline(s) ==
    \E r \in DOMAIN runs :
        /\ runs[r].pc \in {"worker", "reviewer"}
        /\ runs[r].plan[runs[r].idx].id = s

Rewritten(s) == [role |-> "orchestrator", content |-> [kind |-> "rewritten", target |-> s]]

InTranscript(snapshot, m) ==
    \E k \in 1..Len(snapshot.orchestrator_messages) : snapshot.orchestrator_messages[k] = m

\* what the rendering of a command made of subtask s
RedoneAs(s, status) ==
    LET idx == _find_subtask_index(diskPlan', s)
    IN  /\ idx # 0
        /\ diskPlan'[idx].status = status
        /\ InTranscript(last'.snapshot, Rewritten(s))

\* C6 as stated: after a redo decision for a subtask that is not
\* mid-pipeline, the next rendering leaves the subtask pending and puts the
\* trigger_redo message in the transcript.
C6_RedoLeavesPending ==
    [][CommandStep =>
        \A s \in RedoTargets :
            (~MidPipeline(s) /\ _find_subtask_index(diskPlan, s) # 0) => RedoneAs(s, "pending")]_vars

\* C6 amended: the rendering that ends the next command reruns the subtask
\* with the placeholder worker and reviewer, which accepts: the subtask ends
\* done with needs_redo false and the rewritten output, the message is in
\* the transcript and the watermark records the decision.
C6_RedoEndsDone ==
    [][CommandStep =>
        \A s \in RedoTargets :
            (~MidPipeline(s) /\ _find_subtask_index(diskPlan, s) # 0) =>
                /\ RedoneAs(s, "done")
                /\ ~diskPlan'[_find_subtask_index(diskPlan', s)].needs_redo
                /\ diskPlan'[_find_subtask_index(diskPlan', s)].output = run_worker_for_subtask
                /\ ProcessedGet(diskState'.processed, s) # 0
                /\ s \notin RedoTargets']_vars

C6_Witness ==
    /\ last.op = "command"
    /\ hist.ext = 1
    /\ InFlight = {}
    /\ InTranscript(last.snapshot, Rewritten(1))
    /\ diskPlan[1].status = "done"
    /\ diskPlan[1].output = run_worker_for_subtask

C11_DedupLaw ==
    last.op \in {"command", "get"} =>
        LET pe == last.snapshot.progress_events
        IN  \A i, j \in 1..Len(pe) : i # j => ProgressKey(pe[i]) # ProgressKey(pe[j])

\* a snapshot read that found the same events in the state and in the log
C11_Witness ==
    /\ last.op = "get"
    /\ Len(last.snapshot.progress_events) >= 2
    /\ Len(combined_progress_sources(World(_load_plan, load_orchestrator_state)))
          > Len(last.snapshot.progress_events)
    /\ \E i \in 1..Len(progressLog) :
          progressLog[i] \in {ProgressToDict(diskState.progress_events)[k] :
                                 k \in 1..Len(diskState.progress_events)}


\* ---------------------------------------------------------------------
\* Structural edits that name the new subtask's id themselves
MaxIdCmds == 3

IdInputs ==
    {<<"append_subtask", Payload(0, <<>>, "new", 0, newid, "", "")>> : newid \in {0, 1, 3}}
    \cup {<<"insert_subtask", Payload(0, <<>>, "new", 1, newid, "", "")>> : newid \in {0, 2}}
    \cup {<<"skip_subtask", Payload(1, <<>>, "", 0, 0, "", "")>>}

IdNext == \E i \in IdInputs : Command(i[1], i[2], MaxIdCmds)

SpecIds == SeqInit /\ [][IdNext]_vars

\* C12: the subtask ids of the persisted plan are pairwise distinct after
\* any sequence of insert_subtask and append_subtask, with or without a
\* subtask_id supplied by the caller.
C12_IdsDistinct ==
    \A i, j \in 1..Len(diskPlan) : i # j => diskPlan[i].id # diskPlan[j].id


\* ---------------------------------------------------------------------
\* The event log and its writers: roles that send envelopes, valid or not,
\* a `next` command and its background run with the progress mirror
MaxBusSends == 2
MaxBusCmds == 1

BusNext ==
    \/ \E source \in {"reviewer", ""},
          payload_type \in {"coord_decision", "subtask_result", "progress_event"},
          sub \in {0, 1}, decision \in {"", "accept"} :
          BusSend(source, payload_type, sub, decision, MaxBusSends)
    \/ Command("next", NoPayload, MaxBusCmds)
    \/ Bg

SpecBus == Init /\ [][BusNext]_vars

\* a step in which a role called MessageBus.send
SendStep == hist'.sends = hist.sends + 1

\* the envelope that call built
Attempted == Envelope(last'.loaded, last'.cmd, last'.sid, last'.msg, "", clock)

\* C13: appending an envelope that fails the envelope schema or the schema
\* of its payload type raises before anything is written: the log after the
\* failed append is the log before it.
C13_InvalidAppendWritesNothing ==
    [][(SendStep /\ ~validate_envelope(Attempted))
        => (~last'.ok /\ envLog' = envLog)]_vars

C13_Witness ==
    /\ last.op = "send"
    /\ ~last.ok
    /\ last.cmd = "coord_decision"
    /\ last.sid = 0
    /\ Len(envLog) >= 1

IsPrefix(a, b) == Len(a) <= Len(b) /\ SubSeq(b, 1, Len(a)) = a

\* C14: the envelope log is append-only: for every command, pipeline step,
\* progress mirror and rendering the log before is a prefix of the log after.
C14_LogAppendOnly == [][IsPrefix(envLog, envLog')]_vars

\* the log after a run wrote a result, a decision and mirrored progress
\* events, and a role sent an envelope
C14_Witness ==
    /\ \E k \in 1..Len(envLog) : envLog[k].payload_type = "progress_event"
    /\ \E k \in 1..Len(envLog) : envLog[k].payload_type = "subtask_result"
    /\ \E k \in 1..Len(envLog) :
          envLog[k].payload_type = "coord_decision" /\ envLog[k].source = "coordinator"
    /\ \E k \in 1..Len(envLog) : envLog[k].source = "reviewer"
    /\ hist.cmds = 1
    /\ InFlight = {}

\* C15: every entry of the envelope log validates against the envelope
\* schema and the schema of its payload type, whichever writer appended it.
C15_AllEntriesValid == \A k \in 1..Len(envLog) : validate_envelope(envLog[k])

\* no request is in a handler and no background run is in flight
Quiescent == InFlight = {} /\ \A t \in 1..NumThreads : ~slots[t].busy

\* C16: once a background run has raised and no run is in flight, a
\* subsequent `next` or `all` is not rejected by the re-entrancy guard: the
\* persisted state it loads does not say running.
C16_FailedRunRetryable ==
    (hist.fails >= 1 /\ Quiescent) =>
        \A cmd \in {"next", "all"} : ~ReentrancyGuard(load_orchestrator_state, cmd)

\* a dispatcher thread finished the `plan` command it had loaded for
PlanCommandStep ==
    /\ last'.op = "command"
    /\ last'.cmd = "plan"
    /\ \E t \in 1..NumThreads : slots[t].busy /\ ~slots'[t].busy

\* C18: the `plan` command returns the snapshot with ok = true and leaves
\* the persisted plan and the persisted state as they were, also while a
\* background run is in flight.
C18_PlanIsNoOp ==
    [][PlanCommandStep =>
        (last'.ok /\ diskPlan' = diskPlan /\ diskState' = diskState)]_vars

\* run r's pipeline appended the coordinator's decision d for its subtask
DecisionStep(r, d) ==
    /\ runs[r].pc \in {"worker", "reviewer"}
    /\ runs'[r] # runs[r]
    /\ \E i \in (Len(envLog) + 1)..Len(envLog') :
          /\ envLog'[i].source = "coordinator"
          /\ envLog'[i].payload_type = "coord_decision"
          /\ envLog'[i].subtask_id = runs[r].plan[runs[r].idx].id
          /\ envLog'[i].decision = d

\* what the reviewer's answer does to the subtask before the loop goes on
DecisionSetsStatus ==
    \A r \in 1..MaxRuns :
        runs[r].pc = "reviewer" =>
            LET idx == runs[r].idx
            IN  /\ Reviewed(RunWorld(r), idx, "ACCEPT", "", "", clock).plan[idx].status = "done"
                /\ Reviewed(RunWorld(r), idx, "REDO", "", "", clock).plan[idx].status = "pending"

\* C20: in the pipeline of one subtask a decision ACCEPT sets the subtask
\* to done and ends the loop, a decision REDO sets it to pending and starts
\* another worker/reviewer iteration on the same subtask; the loop is left
\* only on ACCEPT, and when run_next_pending_subtask has returned the
\* subtask it drove is done.
C20_PipelineLoop ==
    /\ []DecisionSetsStatus
    /\ [][\A r \in 1..MaxRuns :
            LET idx == runs[r].idx
            IN  /\ DecisionStep(r, "ACCEPT") =>
                      runs'[r].pc = "tail" /\ runs'[r].plan[idx].status = "done"
                /\ DecisionStep(r, "REDO") =>
                      /\ runs'[r].pc = "worker"
                      /\ runs'[r].idx = idx
                      /\ runs'[r].plan[idx].status = "in_progress"
                /\ (runs[r].pc = "reviewer" /\ runs'[r].pc = "tail") =>
                      DecisionStep(r, "ACCEPT")
                /\ runs'[r].pc = "tail" =>
                      runs'[r].plan[runs'[r].idx].status = "done"]_vars

\* a run whose subtask was sent back once and then accepted
C20_Witness ==
    /\ hist.redos >= 1
    /\ \E r \in 1..MaxRuns :
          /\ runs[r].pc = "tail"
          /\ runs[r].plan[runs[r].idx].status = "done"
          /\ \E i, j \in 1..Len(envLog) :
                /\ i < j
                /\ envLog[i].source = "coordinator" /\ envLog[i].decision = "REDO"
                /\ envLog[j].source = "coordinator" /\ envLog[j].decision = "ACCEPT"
                /\ envLog[i].subtask_id = runs[r].plan[runs[r].idx].id
                /\ envLog[j].subtask_id = runs[r].plan[runs[r].idx].id

\* ---------------------------------------------------------------------
\* The API's command endpoint with the recovery from the cached snapshot:
\* commands that start no run, files removed from outside
MaxApiCmds == 3
MaxCleanups == 2

ApiInputs ==
    {<<"plan", NoPayload>>,
     <<"confirm_plan", NoPayload>>,
     <<"append_subtask", Payload(0, <<>>, "new", 0, 0, "", "")>>,
     <<"ask", NoPayload>>,
     <<"ask", Payload(0, <<>>, "", 0, 0, "", "question")>>}

ApiNext ==
    \/ \E i \in ApiInputs, agent \in AgentOutcomes : PostCommand(i[1], i[2], agent, MaxApiCmds)
    \/ \E plan_file, state_file, db \in BOOLEAN :
          CleanUp(plan_file, state_file, db, MaxCleanups)

SpecApi == SeqInit /\ [][ApiNext]_vars

UserCommands(log) ==
    Cardinality({i \in 1..Len(log) : log[i].payload_type = "user_command"})

MaxTextCmds == 3

Texts == {"", "  ", "/plan", "confirm_plan", "hello"}

TextNext ==
    \E text \in Texts, agent \in AgentOutcomes : TextCommand(text, NoPayload, agent, MaxTextCmds)

SpecText == SeqInit /\ [][TextNext]_vars

EmptyText(text) == strip(text) = ""

UnknownText(text) == ~EmptyText(text) /\ bare_cmd(strip(text)) \notin CommandKinds

PipelineEventsOf(log) ==
    SelectSeq(log, LAMBDA e :
        \/ e.payload_type \in {"subtask_result", "coord_decision"}
        \/ e.payload_type = "progress_event" /\ e.agent \in {"worker", "reviewer"})

PipelineEvents == PipelineEventsOf(envLog)

\* the place of an entry in the order of an iteration
StageOf(e) ==
    CASE e.payload_type = "subtask_result" -> 2
      [] e.payload_type = "coord_decision" -> 6
      [] e.payload_type = "progress_event" /\ e.agent = "worker" ->
            IF e.stage = "start" THEN 1 ELSE 3
      [] OTHER -> IF e.stage = "start" THEN 4 ELSE 5

\* the stage a run's iteration has reached: the worker is running after
\* stage 1, the reviewer after stage 4, no iteration is open otherwise
StageReached(pc) == IF pc = "worker" THEN 1 ELSE IF pc = "reviewer" THEN 4 ELSE 0

\* as long as no run was started while another was in flight, the log is a
\* sequence of iterations, each in order
LogInOrder ==
    LET L == PipelineEvents
        cut == {k \in 1..(Len(L) - 1) : StageOf(L[k + 1]) = 1 /\ StageOf(L[k]) # 6}
    IN  /\ L # <<>> => StageOf(L[1]) = 1
        /\ \A k \in 1..(Len(L) - 1) :
              \/ StageOf(L[k + 1]) = 1
              \/ /\ StageOf(L[k + 1]) = StageOf(L[k]) + 1
                 /\ L[k + 1].subtask_id = L[k].subtask_id
                 /\ L[k].timestamp <= L[k + 1].timestamp
        /\ Cardinality(cut) <= hist.fails

\* what a step of run r appends continues r's iteration in order
StepInOrder(r) ==
    LET app == PipelineEventsOf(SubSeq(envLog', Len(envLog) + 1, Len(envLog')))
        pos == StageReached(runs[r].pc)
        run == IF pos # 0 THEN runs[r] ELSE runs'[r]
    IN  /\ \A k \in 1..Len(app) :
              /\ StageOf(app[k]) = ((pos + k - 1) % 6) + 1
              /\ app[k].subtask_id = run.plan[run.idx].id
              /\ k > 1 => app[k - 1].timestamp <= app[k].timestamp
              /\ \A j \in 1..Len(envLog) : envLog[j].timestamp <= app[k].timestamp
        /\ app # <<>> => (pos + Len(app)) % 6 = StageReached(runs'[r].pc)

\* C21: within every iteration of the pipeline for a subtask the log holds,
\* in this order, progress(worker, start), the subtask_result envelope,
\* progress(worker, finish), progress(reviewer, start), progress(reviewer,
\* finish) and the coord_decision envelope, all with the same subtask id and
\* non-decreasing timestamps; an iteration ends early only when a call
\* raised.
C21_IterationOrder ==
    /\ [](~hist.overlap => LogInOrder)
    /\ [][\A r \in DOMAIN runs : runs'[r] # runs[r] => StepInOrder(r)]_vars

\* two whole iterations for t1: the first ended with REDO, the second with
\* ACCEPT
C21_Witness ==
    /\ Len(PipelineEvents) >= 12
    /\ PipelineEvents[6].decision = "REDO"
    /\ PipelineEvents[12].decision = "ACCEPT"
    /\ PipelineEvents[12].subtask_id = 1
    /\ PipelineEvents[7].timestamp > PipelineEvents[1].timestamp
    /\ ~hist.overlap

\* ---------------------------------------------------------------------
\* `next` and `all` on plans whose subtasks have any of the four statuses
\* (update_subtask sets any of them on an unlocked plan)
NumFifoSubtasks == 3
MaxFifoCmds == 1

Statuses == {"pending", "in_progress", "done", "skipped"}

FifoPlans ==
    {[i \in 1..NumFifoSubtasks |-> Subtask(i, "title", f[i], <<>>)] :
        f \in [1..NumFifoSubtasks -> Statuses]}

FifoInit == \E plan \in FifoPlans : InitWith(plan, FALSE)

FifoNext ==
    \/ \E cmd \in {"next", "all"} : Command(cmd, NoPayload, MaxFifoCmds)
    \/ Bg

SpecFifo == FifoInit /\ [][FifoNext]_vars

\* the positions of a plan whose subtask is neither done nor skipped
Open(plan) == {i \in 1..Len(plan) : plan[i].status \notin {"done", "skipped"}}

MinOf(S) == CHOOSE m \in S : \A x \in S : m <= x

\* a step in which run r leaves the point between two subtasks
Picks(r) == runs[r].pc \in {"start", "tail"} /\ runs'[r] # runs[r]

\* C22: `next` (and every round of `all`) drives the first subtask, in plan
\* order, whose status is neither done nor skipped, subtasks left
\* in_progress included; the lookup returns no subtask exactly when
\* hasPending is false, which is when every subtask is done or skipped, and
\* then nothing is driven.
C22_NextDrivesFirstPending ==
    /\ [](LET n == _next_pending_subtask(diskPlan)
          IN  /\ n = 0 <=> ~_has_pending_subtasks(diskPlan)
              /\ n = 0 <=> Open(diskPlan) = {}
              /\ n # 0 => n = MinOf(Open(diskPlan)))
    /\ [][\A r \in DOMAIN runs : Picks(r) =>
            LET plan == runs[r].plan
                goes == runs[r].pc = "start" \/ runs[r].kind = "all"
            IN  IF goes /\ Open(plan) # {}
                THEN /\ runs'[r].pc = "worker"
                     /\ runs'[r].idx = MinOf(Open(plan))
                     /\ runs'[r].plan =
                           [plan EXCEPT ![MinOf(Open(plan))].status = "in_progress"]
                     /\ diskState'.current = plan[MinOf(Open(plan))].id
                ELSE /\ runs'[r].pc = "idle"
                     /\ envLog' = envLog]_vars
    /\ [][(hist'.cmds = hist.cmds + 1 /\ last'.cmd = "next" /\ last'.ok)
            => (last'.sched <=> Open(diskPlan) # {})]_vars

\* a run drives t2, which was left in_progress, past the skipped t1 and
\* before the pending t3
C22_Witness ==
    \E r \in DOMAIN runs :
        /\ runs[r].kind = "next"
        /\ runs[r].pc = "worker"
        /\ runs[r].idx = 2
        /\ diskPlan[1].status = "skipped"
        /\ diskPlan[2].status = "in_progress"
        /\ diskPlan[3].status = "pending"

\* ---------------------------------------------------------------------
\* Free text whose intent is consumed: content changes, redo triggers and
\* plan updates, on plans of any statuses, with the pipeline running
NumIntentSubtasks == 2
MaxIntentCmds == 2

IntentPlans ==
    {[i \in 1..NumIntentSubtasks |-> Subtask(i, "title", f[i], <<>>)] :
        f \in [1..NumIntentSubtasks -> Statuses]}

IntentInit == \E plan \in IntentPlans, novel \in BOOLEAN : InitWith(plan, novel)

ContentChanges ==
    {Intent("REQUEST_CONTENT_CHANGE", target, instructions, "fails") :
        target \in {1, Position(1), UnknownId}, instructions \in {"", "rewrite"}}

RedoTriggers ==
    {Intent("TRIGGER_REDO", target, "", "fails") : target \in {2, Position(0), UnknownId}}

PlanUpdates ==
    {Intent("REQUEST_PLAN_UPDATE", 0, instructions, planner) :
        instructions \in {"", "add a chapter"}, planner \in {"fails", "empty", "subtasks"}}

IntentOutcomes == ContentChanges \cup RedoTriggers \cup PlanUpdates

IntentNext ==
    \/ \E agent \in IntentOutcomes : TextCommand("hello", NoPayload, agent, MaxIntentCmds)
    \/ Command("next", NoPayload, MaxIntentCmds)
    \/ Bg

SpecIntent == IntentInit /\ [][IntentNext]_vars

\* the plan and the state right after the consumption pass of a free text
\* that the intent agent classified as `agent`
AfterPass(agent) ==
    consume_orchestrator_events(
        _load_plan,
        run_orchestrator_turn(
            add_orchestrator_message(load_orchestrator_state, "user",
                [kind |-> "text", target |-> 0]),
            agent),
        clock)

\* a step that handles a free text classified as `agent`
Consumes(agent) == TextCommand("hello", NoPayload, agent, MaxIntentCmds)

\* the log holds a redo decision, which the rendering at the end of a
\* handler may turn into a second consumption pass
RedoLogged ==
    \E k \in 1..Len(envLog) :
        envLog[k].payload_type = "coord_decision" /\ Lower(envLog[k].decision) = "redo"

\* C23: consuming a queued content_change intent whose target is an
\* existing subtask sets that subtask's needs_redo, leaves its status (and
\* every other subtask) as it was, appends the redo-request note when
\* instructions are given, and leaves exactly one trigger_redo intent for
\* that target, and nothing else, in the queue after the pass; the handler
\* persists this plan and this queue.
C23_ContentChangeMarksRedo ==
    [][\A agent \in ContentChanges :
          (Consumes(agent) /\ ResolveTarget(diskPlan, agent.target) # 0) =>
             LET idx == ResolveTarget(diskPlan, agent.target)
                 c == AfterPass(agent)
                 queued == {k \in 1..Len(c.st.orch_events) :
                               /\ c.st.orch_events[k].kind = "TRIGGER_REDO"
                               /\ c.st.orch_events[k].target = agent.target}
             IN  /\ c.plan =
                       [diskPlan EXCEPT
                          ![idx].needs_redo = TRUE,
                          ![idx].notes = IF agent.instructions # ""
                                         THEN Append(@, RedoRequestNote) ELSE @]
                 /\ c.plan[idx].status = diskPlan[idx].status
                 /\ Cardinality(queued) = 1
                 /\ Len(c.st.orch_events) = 1
                 /\ ~RedoLogged =>
                       /\ diskPlan' = c.plan
                       /\ diskState'.orch_events = c.st.orch_events]_vars

\* a finished subtask was marked for redo by position, with the note, and
\* the trigger waits in the persisted queue
C23_Witness ==
    /\ last.op = "command" /\ last.cmd = "hello" /\ last.ok
    /\ Len(diskState.orch_events) = 1
    /\ diskState.orch_events[1].kind = "TRIGGER_REDO"
    /\ diskState.orch_events[1].target = Position(1)
    /\ diskPlan[2].needs_redo
    /\ diskPlan[2].status = "done"
    /\ diskPlan[2].notes = <<RedoRequestNote>>

\* the progress events of an out-of-band redo of subtask sid at time now
RedoProgress(sid, now) ==
    <<ProgressEvent("worker", sid, "start", "orchestrator_event", now),
      ProgressEvent("worker", sid, "finish", "orchestrator_event", now),
      ProgressEvent("reviewer", sid, "start", "orchestrator_event", now),
      ProgressEvent("reviewer", sid, "finish", "orchestrator_event", now)>>

\* C24: consuming a trigger_redo intent for an existing subtask runs that
\* one subtask through a worker step and a reviewer step, outside the walk
\* over the pending subtasks (no run is started, the status of the session
\* and every other subtask stay), and puts the decision into the subtask at
\* once: accept gives done with needs_redo false, redo gives pending with
\* needs_redo true; the intent leaves the queue and an orchestrator message
\* is added to the transcript.
C24_TriggerRedoRunsSubtask ==
    [][\A agent \in RedoTriggers :
          (Consumes(agent) /\ ResolveTarget(diskPlan, agent.target) # 0) =>
             LET idx == ResolveTarget(diskPlan, agent.target)
                 sid == diskPlan[idx].id
                 st0 == load_orchestrator_state
                 c == AfterPass(agent)
                 decision == run_reviewer_on_output.decision
             IN  /\ \A j \in 1..Len(diskPlan) : j # idx => c.plan[j] = diskPlan[j]
                 /\ Len(c.plan) = Len(diskPlan)
                 /\ c.plan[idx].output = run_worker_for_subtask
                 /\ decision \in {"accept", "redo"}
                 /\ decision = "accept" =>
                       (c.plan[idx].status = "done" /\ ~c.plan[idx].needs_redo)
                 /\ decision = "redo" =>
                       (c.plan[idx].status = "pending" /\ c.plan[idx].needs_redo)
                 /\ c.st.progress_events = st0.progress_events \o RedoProgress(sid, clock)
                 /\ c.st.orch_events = <<>>
                 /\ c.st.messages[Len(c.st.messages)] =
                       [role |-> "orchestrator",
                        content |-> [kind |-> "rewritten", target |-> sid]]
                 /\ c.st.status = st0.status
                 /\ diskPlan'[idx] = c.plan[idx]
                 /\ runs' = runs]_vars

\* t2 was rewritten and accepted while t1, before it in the plan, is still
\* pending
C24_Witness ==
    /\ last.op = "command" /\ last.cmd = "hello" /\ last.ok
    /\ diskPlan[1].status = "pending"
    /\ diskPlan[2].status = "done"
    /\ diskPlan[2].output = run_worker_for_subtask
    /\ ~diskPlan[2].needs_redo
    /\ diskState.orch_events = <<>>
    /\ Len(diskState.progress_events) = 4
    /\ diskState.messages # <<>>
    /\ diskState.messages[Len(diskState.messages)].content =
          [kind |-> "rewritten", target |-> 2]

\* C25: consuming a plan_update intent keeps every subtask that was
\* complete before the update, with the same id, status and output, keeps
\* the existing subtasks in their places, and puts new subtasks after them.
C25_PlanUpdateMerges ==
    [][\A agent \in PlanUpdates :
          Consumes(agent) =>
             /\ \A i \in 1..Len(diskPlan) :
                   _is_subtask_complete(diskPlan[i]) =>
                      \E j \in 1..Len(diskPlan') :
                         /\ diskPlan'[j].id = diskPlan[i].id
                         /\ diskPlan'[j].status = diskPlan[i].status
                         /\ diskPlan'[j].output = diskPlan[i].output
             /\ Len(diskPlan') >= Len(diskPlan)
             /\ \A i \in 1..Len(diskPlan) : diskPlan'[i].id = diskPlan[i].id]_vars

\* ---------------------------------------------------------------------
\* a step in which the reviewer's answer for a full batch came back to run r
BatchReviewed(r) ==
    /\ runs[r].pc = "reviewer"
    /\ runs'[r].pc \in {"tail", "worker"}
    /\ batch_mode(RunWorld(r), runs[r].idx)

\* C26: the decision of a reviewer call for a full batch applies to the
\* whole batch: after ACCEPT every member of the batch is done, after REDO
\* every member is to be done again (pending, or in_progress once the loop
\* has taken it up again), not only the member that triggered the call.
C26_BatchDecisionAppliesToAll ==
    [][\A r \in DOMAIN runs :
          BatchReviewed(r) =>
             \A k \in 1..Len(runs[r].st.batch_tasks) :
                LET j == _find_subtask_index(runs'[r].plan, runs[r].st.batch_tasks[k])
                IN  /\ j # 0
                    /\ IF runs'[r].pc = "tail"
                       THEN runs'[r].plan[j].status = "done"
                       ELSE runs'[r].plan[j].status \in {"pending", "in_progress"}]_vars

\* ---------------------------------------------------------------------
\* A long novel: one `all` run over enough chapters for six full batches
NumCounterChapters == 18
MaxCounterCmds == 1

long_novel_plan ==
    [i \in 1..(SetupCount + NumCounterChapters) |->
        Subtask(i, "title", IF i <= SetupCount THEN "done" ELSE "pending", <<>>)]

CounterInit == InitWith(long_novel_plan, TRUE)

CounterNext ==
    \/ Command("all", NoPayload, MaxCounterCmds)
    \/ Bg

SpecCounter == CounterInit /\ [][CounterNext]_vars

\* C27 as stated: the reviewer batch counter of the session state never
\* decreases, and each finalized batch increases it by one, so that the
\* batch ids made from it are never repeated.
C27_BatchCounterMonotonic ==
    [][/\ diskState'.batch_counter >= diskState.batch_counter
       /\ \A r \in DOMAIN runs :
             BatchReviewed(r) =>
                runs'[r].st.batch_counter = runs[r].st.batch_counter + 1]_vars

\* C27: a finalized batch takes the counter from n to n + 1, except that a
\* counter standing at a multiple of five (other than 0) is first set back
\* to 0, so that the batch after batch_5 is batch_1 again; no other step
\* of a pipeline run changes the counter of the state the run works on,
\* and the persisted counter stays within 0..5.
C27_BatchCounterCycles ==
    /\ [](diskState.batch_counter \in 0..ResetEvery)
    /\ [][/\ \A r \in DOMAIN runs :
              BatchReviewed(r) =>
                 runs'[r].st.batch_counter =
                    (IF runs[r].st.batch_counter # 0
                        /\ runs[r].st.batch_counter % ResetEvery = 0
                     THEN 0 ELSE runs[r].st.batch_counter) + 1
          /\ \A r \in DOMAIN runs :
              runs[r].pc # "idle" /\ runs'[r].pc # "idle" /\ ~BatchReviewed(r) =>
                 runs'[r].st.batch_counter = runs[r].st.batch_counter]_vars

\* the sixth batch of a session has been finalized and is batch_1 again
C27_Witness ==
    /\ hist.reviews = ResetEvery + 1
    /\ diskState.batch_counter = 1
    /\ \E r \in DOMAIN runs : runs[r].pc = "tail"

\* ---------------------------------------------------------------------
\* A novel session as init_session leaves it, the four setup subtasks
\* pending and the plan locked, or with the first of them already done
MaxExpandCmds == 1

setup_plan(k) ==
    [i \in 1..SetupCount |->
        Subtask(i, "title", IF i <= k THEN "done" ELSE "pending", <<>>)]

ExpandInit == \E k \in 0..(SetupCount - 1) : InitWith(setup_plan(k), TRUE)

ExpandNext ==
    \/ \E cmd \in {"next", "all"} : Command(cmd, NoPayload, MaxExpandCmds)
    \/ Bg

SpecExpand == ExpandInit /\ [][ExpandNext]_vars

\* the reviewer's ACCEPT for the pivot subtask t4 of a novel session
PivotAccepted(r) ==
    /\ runs[r].pc = "reviewer"
    /\ runs'[r].pc = "tail"
    /\ runs[r].st.novel_mode
    /\ runs[r].plan[runs[r].idx].id = SetupCount

\* C28: in novel mode, when the pivot subtask t4 is accepted, the chapter
\* expansion leaves the plan with strictly more subtasks than before.
C28_ExpansionAddsChapters ==
    [][\A r \in DOMAIN runs :
          PivotAccepted(r) => Len(runs'[r].plan) > Len(runs[r].plan)]_vars

\* ---------------------------------------------------------------------
\* Commands with a malformed payload or an unknown reference, between and
\* during pipeline runs, on an unlocked plan
NumRejectSubtasks == 2
MaxRejectCmds == 3

RejectInit == InitWith(from_outline(NumRejectSubtasks), FALSE)

MalformedInputs ==
    {<<"set_current_subtask", NoPayload>>,
     <<"set_current_subtask", Payload(UnknownId, <<>>, "", 0, 0, "", "")>>,
     <<"update_subtask", Payload(0, [status |-> "done"], "", 0, 0, "", "")>>,
     <<"update_subtask", Payload(UnknownId, [status |-> "done"], "", 0, 0, "", "")>>,
     <<"update_subtask", Payload(1, <<>>, "", 0, 0, "", "")>>,
     <<"update_subtask", Payload(1, NonDictPatch, "", 0, 0, "", "")>>,
     <<"insert_subtask", NoPayload>>,
     <<"insert_subtask", Payload(0, <<>>, "new", UnknownId, 0, "", "")>>,
     <<"append_subtask", NoPayload>>,
     <<"ask", NoPayload>>}

RejectNext ==
    \/ \E i \in MalformedInputs : TextCommand(i[1], i[2], Quiet, MaxRejectCmds)
    \/ Command("next", NoPayload, MaxRejectCmds)
    \/ Bg

SpecReject == RejectInit /\ [][RejectNext]_vars

RejectionMessages ==
    {"missing subtask_id", "subtask not found", "patch empty", "missing title",
     "after_id not found", "missing question"}

\* this step is a command that was rejected for its payload or reference
Rejected ==
    /\ hist'.cmds = hist.cmds + 1
    /\ last'.op = "command"
    /\ last'.msg \in RejectionMessages

RedoDue ==
    \E w \in {World(_load_plan, load_orchestrator_state)} :
        _auto_trigger_redo_from_logs(w, clock) # w

\* what the read-only command `plan` would leave on disk in this state
AfterPlainRendering == Respond(World(_load_plan, load_orchestrator_state), "plan", clock).w

NumStatusSubtasks == 2
MaxStatusCmds == 2

StatusInit == InitWith(from_outline(NumStatusSubtasks), FALSE)

StatusInputs ==
    {<<"update_subtask", Payload(1, [status |-> "skipped"], "", 0, 0, "", "")>>,
     <<"update_subtask", Payload(1, [status |-> "failed"], "", 0, 0, "", "")>>,
     <<"insert_subtask", Payload(0, <<>>, "new", 1, 0, "archived", "")>>,
     <<"append_subtask", Payload(0, <<>>, "new", 0, 0, "", "")>>,
     <<"append_subtask", Payload(0, <<>>, "new", 0, 0, "DONE", "")>>}

StatusNext ==
    \/ \E i \in StatusInputs : Command(i[1], i[2], MaxStatusCmds)
    \/ Command("next", NoPayload, MaxStatusCmds)
    \/ Bg

SpecStatus == StatusInit /\ [][StatusNext]_vars

\* C30: in every reachable state the status of every subtask, in the
\* persisted plan and in the plan a pipeline run works on, is one of
\* pending, in_progress, done, skipped.
C30_StatusInDomain ==
    /\ \A i \in 1..Len(diskPlan) : diskPlan[i].status \in Statuses
    /\ \A r \in DOMAIN runs :
          runs[r].pc # "idle" =>
             \A i \in 1..Len(runs[r].plan) : runs[r].plan[i].status \in Statuses

\* C31: every progress event of the persisted session state is also in the
\* progress log (no write fails in this model), for the events of the
\* pipeline as well as for those of a consumed trigger_redo.
C31_ProgressWrittenTwice ==
    \A k \in 1..Len(diskState.progress_events) :
        \E i \in 1..Len(progressLog) :
            progressLog[i] = ProgressToDict(diskState.progress_events)[k]

\* ---------------------------------------------------------------------
\* The lists of a rendered snapshot, over logs whose entries the writers
\* stamped before they appended them (so the log need not be in timestamp
\* order), with and without cached outputs and outputs kept on the plan
MaxLogLen == 2
MaxStamp == 2

\* subtask_map = {sub["id"]: sub["title"] ...}: the keys of a dict, each id
\* once, in the order of its first subtask
RECURSIVE subtask_map_keys(_, _, _)
subtask_map_keys(plan, i, keys) ==
    IF i > Len(plan) THEN keys
    ELSE subtask_map_keys(plan, i + 1,
            IF \E k \in 1..Len(keys) : keys[k] = plan[i].id THEN keys
            ELSE Append(keys, plan[i].id))

ScanKeepFirst(envelopes, kind, i, acc) ==
    LET first(sub) == CHOOSE k \in 1..Len(envelopes) :
                          /\ envelopes[k].payload_type = kind
                          /\ envelopes[k].subtask_id = sub
                          /\ \A j \in 1..(k - 1) :
                                ~(envelopes[j].payload_type = kind /\ envelopes[j].subtask_id = sub)
        subs == {envelopes[k].subtask_id :
                    k \in {j \in 1..Len(envelopes) : envelopes[j].payload_type = kind}} \ {0}
    IN  [sub \in subs |->
            [subtask_id |-> sub, decision |-> envelopes[first(sub)].decision,
             timestamp |-> envelopes[first(sub)].timestamp,
             source |-> envelopes[first(sub)].source]]

\* the envelope loop of build_session_snapshot for one payload type: an
\* entry replaces the one held for its subtask id unless that one's
\* timestamp is greater or equal
RECURSIVE ScanEnvelopes(_, _, _, _)
ScanEnvelopes(envelopes, kind, i, acc) ==
    IF i > Len(envelopes) THEN acc
    ELSE IF envelopes[i].payload_type # kind \/ envelopes[i].subtask_id = 0
            \/ (envelopes[i].subtask_id \in DOMAIN acc
                /\ acc[envelopes[i].subtask_id].timestamp >= envelopes[i].timestamp)
    THEN ScanEnvelopes(envelopes, kind, i + 1, acc)
    ELSE ScanEnvelopes(envelopes, kind, i + 1,
            (envelopes[i].subtask_id :>
                [subtask_id |-> envelopes[i].subtask_id, decision |-> envelopes[i].decision,
                 timestamp |-> envelopes[i].timestamp, source |-> envelopes[i].source])
            @@ acc)

\* the loop over the cached worker outputs of the state: skipped for an id
\* that already has an output
RECURSIVE AddCachedOutputs(_, _, _)
AddCachedOutputs(cached_outputs, i, worker_outputs) ==
    IF i > Len(cached_outputs) THEN worker_outputs
    ELSE IF cached_outputs[i].subtask_id = 0
            \/ cached_outputs[i].subtask_id \in DOMAIN worker_outputs
    THEN AddCachedOutputs(cached_outputs, i + 1, worker_outputs)
    ELSE AddCachedOutputs(cached_outputs, i + 1,
            worker_outputs @@
            (cached_outputs[i].subtask_id :>
                [subtask_id |-> cached_outputs[i].subtask_id, decision |-> "",
                 timestamp |-> cached_outputs[i].timestamp,
                 source |-> "state_worker_output"]))

\* the fallback loop over the plan: a subtask's own output, without a
\* timestamp (0)
RECURSIVE AddPlanOutputs(_, _, _)
AddPlanOutputs(plan, i, worker_outputs) ==
    IF i > Len(plan) THEN worker_outputs
    ELSE IF plan[i].output = "" \/ plan[i].id \in DOMAIN worker_outputs
    THEN AddPlanOutputs(plan, i + 1, worker_outputs)
    ELSE AddPlanOutputs(plan, i + 1,
            worker_outputs @@
            (plan[i].id :> [subtask_id |-> plan[i].id, decision |-> "",
                            timestamp |-> 0, source |-> "state_fallback"]))

\* worker_list / coord_list: the entries of the plan's ids, in plan order
ListFor(keys, entries) ==
    LET present == SelectSeq(keys, LAMBDA sub : sub \in DOMAIN entries)
    IN  [k \in 1..Len(present) |-> entries[present[k]]]

worker_list(w) ==
    ListFor(subtask_map_keys(w.dplan, 1, <<>>),
            AddPlanOutputs(w.dplan, 1,
                AddCachedOutputs(w.st.worker_outputs, 1,
                    ScanEnvelopes(SortByTimestamp(w.elog), "subtask_result", 1, <<>>))))

coord_list(w) ==
    ListFor(subtask_map_keys(w.dplan, 1, <<>>),
            ScanEnvelopes(SortByTimestamp(w.elog), "coord_decision", 1, <<>>))

SnapEnvelopes ==
    {Envelope("worker", "subtask_result", sub, "", "", ts) :
        sub \in {1, UnknownId}, ts \in 1..MaxStamp}
    \cup {Envelope("reviewer", "coord_decision", 1, d, "", ts) :
            d \in {"accept", "redo"}, ts \in 1..MaxStamp}

SnapLogs ==
    UNION {[1..n -> SnapEnvelopes] : n \in 0..MaxLogLen}

\* a session with t1 and a second subtask (which a structural edit may have
\* given the id t1 as well), t1 with or without an output on the plan and in
\* the state's cache
SnapInit ==
    \E log \in SnapLogs, cached \in BOOLEAN, onplan \in BOOLEAN, dup \in BOOLEAN :
        LET t1 == IF onplan
                  THEN [Subtask(1, "title", "done", <<>>) EXCEPT !.output = "worker rewrite"]
                  ELSE Subtask(1, "title", "pending", <<>>)
            plan == <<t1, Subtask(IF dup THEN 1 ELSE 2, "title", "pending", <<>>)>>
            st == [NewState(FALSE, FALSE) EXCEPT
                      !.worker_outputs =
                          IF cached THEN <<[subtask_id |-> 1, timestamp |-> MaxStamp + 1]>>
                          ELSE <<>>]
        IN  /\ diskPlan = plan
            /\ diskState = st
            /\ envLog = log
            /\ progressLog = <<>>
            /\ clock = MaxStamp + 2
            /\ runs = [r \in 1..MaxRuns |-> IdleRun]
            /\ slots = [t \in 1..NumThreads |-> IdleSlot]
            /\ last = ResultWith("init", "", 0, "idle", TRUE, "", FALSE, NoSnapshot, 0)
            /\ hist = NoHist
            /\ api = [plan_file |-> TRUE, state_file |-> TRUE,
                      cache |-> <<[plan |-> plan, orchestrator_state |-> st]>>,
                      attempts |-> 0, cleanups |-> 0]

\* api.get_session_snapshot, of which the two lists are kept
GetLists ==
    /\ hist.gets < 1
    /\ \E w \in {World(_load_plan, load_orchestrator_state)} :
          last' = Result("lists", "", 0, diskState.status, TRUE, "", FALSE,
                         [worker_outputs |-> worker_list(w),
                          coord_decisions |-> coord_list(w)])
    /\ hist' = [hist EXCEPT !.gets = @ + 1]
    /\ UNCHANGED <<diskPlan, diskState, envLog, progressLog, clock, runs, slots, api>>

SnapNext == GetLists

SpecSnap == SnapInit /\ [][SnapNext]_vars

LogEntries(kind, sub) ==
    {k \in 1..Len(envLog) : envLog[k].payload_type = kind /\ envLog[k].subtask_id = sub}

\* the entry shown is one of the log's entries of that kind and subtask with
\* the maximum timestamp
ShowsLatest(e, kind) ==
    \E k \in LogEntries(kind, e.subtask_id) :
        /\ e.timestamp = envLog[k].timestamp
        /\ e.decision = envLog[k].decision
        /\ e.source = envLog[k].source
        /\ \A j \in LogEntries(kind, e.subtask_id) : envLog[j].timestamp <= envLog[k].timestamp

\* C32: a rendered snapshot lists at most one worker output and one review
\* decision per subtask id; for an id with entries in the event log the entry
\* shown is one with the maximum timestamp; the state's cache is used only
\* for an id without subtask_result in the log, and the plan's own output
\* only for an id without either.
C32_LatestPerSubtask ==
    last.op = "lists" =>
        LET wl == last.snapshot.worker_outputs
            cl == last.snapshot.coord_decisions
            cachedIds == {diskState.worker_outputs[k].subtask_id :
                             k \in 1..Len(diskState.worker_outputs)}
        IN  /\ \A i, j \in 1..Len(wl) : i # j => wl[i].subtask_id # wl[j].subtask_id
            /\ \A i, j \in 1..Len(cl) : i # j => cl[i].subtask_id # cl[j].subtask_id
            /\ \A i \in 1..Len(cl) : ShowsLatest(cl[i], "coord_decision")
            /\ \A i \in 1..Len(wl) :
                  IF LogEntries("subtask_result", wl[i].subtask_id) # {}
                  THEN ShowsLatest(wl[i], "subtask_result")
                  ELSE IF wl[i].subtask_id \in cachedIds
                  THEN wl[i].source = "state_worker_output"
                  ELSE wl[i].source = "state_fallback"
            /\ \A p \in 1..Len(diskPlan) :
                  /\ LogEntries("subtask_result", diskPlan[p].id) # {}
                        => \E i \in 1..Len(wl) : wl[i].subtask_id = diskPlan[p].id
                  /\ LogEntries("coord_decision", diskPlan[p].id) # {}
                        => \E i \in 1..Len(cl) : cl[i].subtask_id = diskPlan[p].id

\* the log holds two results of t1 with the later one first, t1 also has a
\* cached output and an output on the plan, and the list shows the later
\* result
C32_Witness ==
    /\ last.op = "lists"
    /\ Len(envLog) = 2
    /\ envLog[1].payload_type = "subtask_result" /\ envLog[1].subtask_id = 1
    /\ envLog[2].payload_type = "subtask_result" /\ envLog[2].subtask_id = 1
    /\ envLog[1].timestamp > envLog[2].timestamp
    /\ diskState.worker_outputs # <<>>
    /\ diskPlan[1].output # ""
    /\ diskPlan[2].id = 1
    /\ Len(last.snapshot.worker_outputs) = 1
    /\ last.snapshot.worker_outputs[1].timestamp = envLog[1].timestamp

\* ---------------------------------------------------------------------
\* A client that sends `next`, keeps the snapshot it got back and then loads
\* the persisted state, while the background run goes on
MaxNextCmds == 2

\* orch.execute_command(session_id, "/next"); the caller keeps the returned
\* snapshot's state
NextKeepingSnapshot(t) ==
    /\ ~slots[t].busy
    /\ hist.cmds < MaxNextCmds
    /\ Handle("next", NoPayload, _load_plan, load_orchestrator_state, 1)
    /\ slots' = [slots EXCEPT ![t] =
                    [busy |-> last'.ok, cmd |-> "next", p |-> NoPayload, plan |-> <<>>,
                     st |-> [NewState(FALSE, FALSE) EXCEPT
                                !.status = last'.snapshot.status]]]

\* orch.load_orchestrator_state(session_id) by the caller of an accepted
\* `next`: the status loaded is kept next to the status of the snapshot
LoadAfterNext(t) ==
    /\ slots[t].busy
    /\ slots[t].cmd = "next"
    /\ last' = Result("loaded", "next", 0, load_orchestrator_state.status, TRUE, "", FALSE,
                      [status |-> slots[t].st.status])
    /\ slots' = [slots EXCEPT ![t] = IdleSlot]
    /\ UNCHANGED <<diskPlan, diskState, envLog, progressLog, clock, runs, hist, api>>

NextInit == InitWith(from_outline(NumSeqSubtasks), FALSE)

NextLoadNext ==
    \/ NextKeepingSnapshot(1)
    \/ LoadAfterNext(1)
    \/ Bg

SpecNext == NextInit /\ [][NextLoadNext]_vars

\* C33: the state loaded after an accepted `next` has returned has the
\* status of the snapshot the command returned, whatever the background run
\* has done in between.
C33_StatusAsReturned ==
    last.op = "loaded" => last.loaded = last.snapshot.status

\* the same, for a load that no step of a background run precedes
C33_StatusAsReturnedAtOnce ==
    [][(last.op = "command" /\ last'.op = "loaded") =>
          last'.loaded = last'.snapshot.status]_vars

\* ---------------------------------------------------------------------
\* The watermark of the out-of-band redo
Watermark(sub) == ProcessedGet(diskState.processed, sub)

\* the latest coord_decision of the log per subtask, as the out-of-band redo
\* reads it
LatestLogged == LatestDecisions(envLog, 1, [latest |-> <<>>, order |-> <<>>]).latest

\* a rendering in this state synthesizes a trigger_redo for sub
Synthesizes(sub) ==
    \E w \in {World(_load_plan, load_orchestrator_state)} :
    \E r \in {RedoEvents(LatestDecisions(w.elog, 1, [latest |-> <<>>, order |-> <<>>]), 1,
                         w.st.processed, {}, <<>>)} :
        \E i \in 1..Len(r.new_events) : r.new_events[i].target = sub

\* C34: each redo decision of the event log triggers the out-of-band redo at
\* most once: a command whose rendering synthesizes and consumes a
\* trigger_redo for a subtask leaves the subtask's persisted watermark at the
\* decision's timestamp, a rendering right after it synthesizes nothing for
\* the subtask, and no step ever lowers a watermark.
C34_RedoOncePerDecision ==
    [][\A sub \in {1, UnknownId} :
          /\ ProcessedGet(diskState'.processed, sub) >= Watermark(sub)
          /\ (last'.op = "command" /\ Synthesizes(sub)) =>
                /\ ProcessedGet(diskState'.processed, sub) = LatestLogged[sub].timestamp
                /\ ~Synthesizes(sub)']_vars

\* the part of it that concerns the command alone
C34_CommandSetsWatermark ==
    [][\A sub \in {1, UnknownId} :
          (last'.op = "command" /\ Synthesizes(sub)) =>
                /\ ProcessedGet(diskState'.processed, sub) = LatestLogged[sub].timestamp
                /\ ~Synthesizes(sub)']_vars

\* ---------------------------------------------------------------------
\* The out-of-band redo and a pipeline run that is redoing a subtask itself

\* run r is between two calls for a subtask for which the pipeline's own
\* reviewer, and nobody else, logged REDO as the latest decision
RedoingItself(r) ==
    /\ runs[r].pc \in {"worker", "reviewer"}
    /\ runs[r].idx \in 1..Len(runs[r].plan)
    /\ \E sub \in {runs[r].plan[runs[r].idx].id} :
          /\ sub \in DOMAIN LatestLogged
          /\ LatestLogged[sub].decision = "redo"
          /\ \A k \in 1..Len(envLog) :
                (envLog[k].payload_type = "coord_decision" /\ envLog[k].subtask_id = sub)
                    => envLog[k].source = "coordinator"

\* C35: while a background run is driving a subtask and has logged a REDO
\* decision for it, a command handled concurrently does not synthesize a
\* trigger_redo for that subtask and leaves its persisted status and output
\* as they were.
C35_NoRedoBesideTheRun ==
    [][\A r \in DOMAIN runs :
          (RedoingItself(r) /\ last'.op = "command") =>
              \E i \in {runs[r].idx} :
                  /\ ~Synthesizes(runs[r].plan[i].id)
                  /\ i \in 1..Len(diskPlan) /\ i \in 1..Len(diskPlan')
                  /\ diskPlan'[i].status = diskPlan[i].status
                  /\ diskPlan'[i].output = diskPlan[i].output]_vars

\* ---------------------------------------------------------------------
\* Lost updates between dispatcher threads and background runs

\* what the runs persisted is in the persisted files: the progress events
\* they recorded (each is also in the progress log), a worker output for
\* every subtask_result they logged, and, when no call failed, status done
\* for every subtask whose latest logged decision is the pipeline's ACCEPT
RunUpdatesPresent ==
    /\ \A i \in 1..Len(progressLog) :
          \E k \in 1..Len(diskState.progress_events) :
              ProgressToDict(diskState.progress_events)[k] = progressLog[i]
    /\ \A i \in 1..Len(envLog) :
          envLog[i].payload_type = "subtask_result" =>
              \E k \in 1..Len(diskState.worker_outputs) :
                  diskState.worker_outputs[k].subtask_id = envLog[i].subtask_id
    /\ hist.fails = 0 =>
          \A p \in 1..Len(diskPlan) :
              (diskPlan[p].id \in DOMAIN LatestLogged
               /\ LatestLogged[diskPlan[p].id].decision = "accept")
                  => diskPlan[p].status = "done"

\* a step of a background run keeps what the commands persisted: the lock
\* of the plan and the transcript messages
RunKeepsCommandUpdates ==
    last'.op = "bg" =>
        /\ diskState.plan_locked => diskState'.plan_locked
        /\ \A k \in 1..Len(diskState.messages) :
              \E j \in 1..Len(diskState'.messages) :
                  diskState'.messages[j] = diskState.messages[k]

\* C36: no update is lost between the dispatcher and a background run: once
\* the dispatcher threads and the runs have finished, what the runs
\* persisted is still in the persisted files, and no step of a run removes
\* the plan lock or a transcript message that a command persisted.
C36_NoLostUpdate ==
    /\ [](Quiescent => RunUpdatesPresent)
    /\ [][RunKeepsCommandUpdates]_vars

\* ---------------------------------------------------------------------
\* Liveness of background runs: every call returns (no run raises), the
\* reviewer asks for at most MaxRedo redos, a started thread keeps running
\* and a dispatcher thread that loaded finishes its command
RunStep(r) ==
    \/ BgStart(r)
    \/ BgWorker(r)
    \/ \E d \in {"ACCEPT", "REDO"} : BgReview(r, d, "", "")
    \/ BgTail(r)

LiveNext ==
    \/ \E t \in 1..NumThreads, cmd \in {"plan", "confirm_plan", "next", "all"} :
          Load(t, cmd, NoPayload)
    \/ \E t \in 1..NumThreads : Exec(t)
    \/ \E r \in 1..MaxRuns : RunStep(r)

\* a dispatcher thread that has loaded finishes its command: Exec(t) stays
\* enabled while slot t is busy and a thread slot is free, so weak fairness
\* of Exec(t) is stated as "slot t is idle again and again"
SpecLive ==
    /\ Init
    /\ [][LiveNext]_vars
    /\ \A r \in 1..MaxRuns : WF_vars(RunStep(r))
    /\ \A t \in 1..NumThreads : []<>(~slots[t].busy)

\* the same with each command handled with no other thread in between
LiveSeqNext ==
    \/ \E cmd \in {"plan", "confirm_plan", "next", "all"} : Command(cmd, NoPayload, MaxCmds)
    \/ \E r \in 1..MaxRuns : RunStep(r)

SpecLiveSeq ==
    /\ Init
    /\ [][LiveSeqNext]_vars
    /\ \A r \in 1..MaxRuns : WF_vars(RunStep(r))

Accepted(cmd) == last.op = "command" /\ last.cmd = cmd /\ last.ok /\ last.sched

AllFinished == \A p \in 1..Len(diskPlan) : diskPlan[p].status \in {"done", "skipped"}

\* C37: every accepted `next` is followed by a state with status idle and no
\* current subtask, every accepted `all` by a state with status completed
\* and every subtask done or skipped, and the session does not stay in
\* status running forever.
C37_RunsEnd ==
    /\ Accepted("next") ~> (diskState.status = "idle" /\ diskState.current = 0)
    /\ Accepted("all") ~> (diskState.status = "completed" /\ AllFinished)
    /\ []<>(diskState.status # "running")

\* once status running is persisted with no run in flight and no dispatcher
\* thread holding another status, no command takes the session out of it
C37_StuckStaysRunning ==
    [][(/\ diskState.status = "running"
        /\ InFlight = {}
        /\ \A t \in 1..NumThreads : slots[t].busy => slots[t].st.status = "running")
           => diskState'.status = "running"]_vars

\* ---------------------------------------------------------------------
\* C38: in every persisted state current_subtask_id is empty or the id of a
\* subtask of the persisted plan.
C38_CurrentInPlan ==
    \/ diskState.current = 0
    \/ \E p \in 1..Len(diskPlan) : diskPlan[p].id = diskState.current

\* ---------------------------------------------------------------------
\* Reviewer-batch mode with a reviewer that may answer REDO every time it
\* is called: a novel plan with the setup done, one `all`
NumLoopChapters == 11

loop_novel_plan ==
    [i \in 1..(SetupCount + NumLoopChapters) |->
        Subtask(i, "title", IF i <= SetupCount THEN "done" ELSE "pending", <<>>)]

LoopInit == InitWith(loop_novel_plan, TRUE)

LoopBg ==
    \E r \in 1..MaxRuns :
        \/ BgStart(r)
        \/ BgWorker(r)
        \/ \E d \in {"ACCEPT", "REDO"} : BgReturned(r, d, "", "")
        \/ BgTail(r)
        \/ BgFail(r)

LoopNext ==
    \/ Command("all", NoPayload, MaxCounterCmds)
    \/ LoopBg

SpecLoop == LoopInit /\ [][LoopNext]_vars

\* the worker outputs logged for a subtask: with one `all`, the worker runs
\* of the one loop that takes the subtask up
WorkerRuns(sid) ==
    Cardinality({k \in 1..Len(envLog) :
                    envLog[k].payload_type = "subtask_result" /\ envLog[k].subtask_id = sid})

\* C39: in reviewer-batch mode the loop for one subtask performs at most two
\* worker runs, whatever the reviewer answers: a reviewer call that answers
\* REDO leaves the run on the same subtask with an empty pending batch, and
\* a worker run that starts with an empty pending batch ends the loop (its
\* output is accepted without a reviewer), unless the call fails.
C39_AtMostTwoWorkerRuns ==
    [][\A r \in DOMAIN runs :
          /\ (BatchReviewed(r) /\ runs'[r].pc = "worker") =>
                /\ runs'[r].idx = runs[r].idx
                /\ runs'[r].st.batch_tasks = <<>>
          /\ (/\ runs[r].pc = "worker"
              /\ batch_mode(RunWorld(r), runs[r].idx)
              /\ runs[r].st.batch_tasks = <<>>
              /\ runs'[r] # runs[r]) => runs'[r].pc \in {"tail", "idle"}]_vars

\* after one `all`, which takes each chapter up in one loop, no chapter has
\* more than two logged worker outputs
C39_TwoOutputsAfterOneAll ==
    hist.cmds <= 1 =>
        \A p \in (SetupCount + 1)..Len(diskPlan) : WorkerRuns(diskPlan[p].id) <= 2

\* a chapter whose first output the reviewer answered with REDO and whose
\* second output was accepted without a reviewer, while the batch was
\* filling again
C39_Witness ==
    \E sid \in (SetupCount + 1)..(SetupCount + NumLoopChapters) :
        /\ WorkerRuns(sid) = 2
        /\ \E k \in 1..Len(envLog) :
              /\ envLog[k].payload_type = "coord_decision"
              /\ envLog[k].subtask_id = sid
              /\ envLog[k].decision = "REDO"
        /\ \E k \in 1..Len(envLog) :
              /\ envLog[k].payload_type = "coord_decision"
              /\ envLog[k].subtask_id = sid
              /\ envLog[k].decision = "ACCEPT"
              /\ envLog[k].reason = WaitForBatch
        /\ hist.redos >= 2

\* C40: in reviewer-batch mode every output accepted while it waited in the
\* pending batch comes before the reviewer in the end: when `all` has
\* reached status completed, the pending reviewer batch is empty.
C40_BatchEmptyWhenCompleted ==
    diskState.status = "completed" => diskState.batch_tasks = <<>>

\* the same for a session whose chapters fill whole batches and whose
\* reviewer accepts every batch
C40_WholeBatchesAccepted ==
    (diskState.status = "completed" /\ hist.redos = 0 /\ hist.fails = 0
     /\ (Len(diskPlan) - SetupCount) % BatchThreshold = 0)
        => diskState.batch_tasks = <<>>

====
